---------------------------- MODULE Spec2Model ----------------------------
(***************************************************************************)
(* A model of the Ada tag parser of parsers/ada.c: the lexical cursor, the *)
(* token tree, the variable-list parser, the block / subprogram / type     *)
(* parsers, the mode dispatcher adaParse and the emission pass             *)
(* storeAdaTags, driven by findAdaTags.                                    *)
(*                                                                         *)
(* Text is kept as TLA+ strings; a C index p (0-based) into a string s is  *)
(* the character SubSeq(s, p+1, p+1), and the terminating '\0' of a C      *)
(* string (and the '\0' that adaParseVariables keeps between buffered      *)
(* lines) is the character NUL below.  Input lines never hold a newline.   *)
(***************************************************************************)
EXTENDS Integers, Sequences, FiniteSets, TLC

VARIABLES file,    \* the input: the lines fileReadLine() hands out, in order
          opt,     \* Option.include.fileScope / qualifiedTags and the kinds' enabled flags
          pc,      \* where findAdaTags is: "start", "parse", "store", "done"
          cur,     \* the scanner's globals: line, lineLen, pos, exception, eofCount, match*
          heap,    \* every adaTokenInfo ever allocated, by address (index)
          stack,   \* the adaParse activations, innermost last
          estack,  \* the storeAdaTags activations, innermost last
          tags     \* the records handed to makeTagEntry, in order

vars == <<file, opt, pc, cur, heap, stack, estack, tags>>

-----------------------------------------------------------------------------
(* Characters *)

NUL == "\n"

UpperS == "ABCDEFGHIJKLMNOPQRSTUVWXYZ"
LowerS == "abcdefghijklmnopqrstuvwxyz"
DigitS == "0123456789"

CharsOf(s) == {SubSeq(s, i, i) : i \in 1..Len(s)}

LowerOf == [ch \in CharsOf(UpperS) |->
              LET i == CHOOSE j \in 1..Len(UpperS) : SubSeq(UpperS, j, j) = ch
              IN  SubSeq(LowerS, i, i)]

tolower(ch) == IF ch \in DOMAIN LowerOf THEN LowerOf[ch] ELSE ch

AlnumChars == CharsOf(UpperS) \cup CharsOf(LowerS) \cup CharsOf(DigitS)

isalnum(ch) == ch \in AlnumChars

isspace(ch) == ch \in {" ", "\t"}

\* buf[p] for a C string held in s: past the end is the terminating '\0'
CharAt(s, p) == IF p >= 0 /\ p < Len(s) THEN SubSeq(s, p + 1, p + 1) ELSE NUL

\* strncpy(dst, &s[p], len): stops at the first '\0'
RECURSIVE CopyLen(_, _, _)
CopyLen(s, p, len) ==
  IF len = 0 \/ CharAt(s, p) = NUL THEN 0 ELSE 1 + CopyLen(s, p + 1, len - 1)

strncpy(s, p, len) == SubSeq(s, p + 1, p + CopyLen(s, p, len))

\* strncasecmp(&s[p], match, strlen(match)) == 0
strncasecmp0(s, p, match) ==
  \A k \in 1..Len(match) :
     tolower(CharAt(s, p + k - 1)) = tolower(SubSeq(match, k, k))

-----------------------------------------------------------------------------
(* Kinds *)

ADA_KIND_SEPARATE  == "SEPARATE"
ADA_KIND_UNDEFINED == "UNDEFINED"

\* adaKind, in enumeration order: AdaKindOrder[k + 1] is the kind of value k
AdaKindOrder ==
  << "PACKAGE_SPEC", "PACKAGE", "TYPE_SPEC", "TYPE", "SUBTYPE_SPEC", "SUBTYPE",
     "RECORD_COMPONENT", "ENUM_LITERAL", "VARIABLE_SPEC", "VARIABLE", "FORMAL",
     "CONSTANT", "EXCEPTION", "SUBPROGRAM_SPEC", "SUBPROGRAM", "TASK_SPEC",
     "TASK", "PROTECTED_SPEC", "PROTECTED", "ENTRY_SPEC", "ENTRY", "LABEL",
     "IDENTIFIER", "AUTOMATIC_VARIABLE", "ANONYMOUS" >>

\* ADA_KIND_UNDEFINED < kind < ADA_KIND_COUNT
RealKinds == {AdaKindOrder[i] : i \in 1..Len(AdaKindOrder)}

\* the kindOption table: the compiled-in enabled flag and the long name
AdaKinds ==
  [k \in RealKinds |->
     CASE k = "PACKAGE_SPEC"       -> [enabled |-> TRUE,  name |-> "packspec"]
       [] k = "PACKAGE"            -> [enabled |-> TRUE,  name |-> "package"]
       [] k = "TYPE_SPEC"          -> [enabled |-> FALSE, name |-> "typespec"]
       [] k = "TYPE"               -> [enabled |-> TRUE,  name |-> "type"]
       [] k = "SUBTYPE_SPEC"       -> [enabled |-> FALSE, name |-> "subspec"]
       [] k = "SUBTYPE"            -> [enabled |-> TRUE,  name |-> "subtype"]
       [] k = "RECORD_COMPONENT"   -> [enabled |-> TRUE,  name |-> "component"]
       [] k = "ENUM_LITERAL"       -> [enabled |-> TRUE,  name |-> "literal"]
       [] k = "VARIABLE_SPEC"      -> [enabled |-> FALSE, name |-> "varspec"]
       [] k = "VARIABLE"           -> [enabled |-> TRUE,  name |-> "variable"]
       [] k = "FORMAL"             -> [enabled |-> TRUE,  name |-> "formal"]
       [] k = "CONSTANT"           -> [enabled |-> TRUE,  name |-> "constant"]
       [] k = "EXCEPTION"          -> [enabled |-> TRUE,  name |-> "exception"]
       [] k = "SUBPROGRAM_SPEC"    -> [enabled |-> TRUE,  name |-> "subprogspec"]
       [] k = "SUBPROGRAM"         -> [enabled |-> TRUE,  name |-> "subprogram"]
       [] k = "TASK_SPEC"          -> [enabled |-> TRUE,  name |-> "taskspec"]
       [] k = "TASK"               -> [enabled |-> TRUE,  name |-> "task"]
       [] k = "PROTECTED_SPEC"     -> [enabled |-> TRUE,  name |-> "protectspec"]
       [] k = "PROTECTED"          -> [enabled |-> TRUE,  name |-> "protected"]
       [] k = "ENTRY_SPEC"         -> [enabled |-> FALSE, name |-> "entryspec"]
       [] k = "ENTRY"              -> [enabled |-> TRUE,  name |-> "entry"]
       [] k = "LABEL"              -> [enabled |-> TRUE,  name |-> "label"]
       [] k = "IDENTIFIER"         -> [enabled |-> TRUE,  name |-> "identifier"]
       [] k = "AUTOMATIC_VARIABLE" -> [enabled |-> FALSE, name |-> "autovar"]
       [] k = "ANONYMOUS"          -> [enabled |-> FALSE, name |-> "annon"]]

makeSpec(kind) ==
  CASE kind = "PACKAGE"    -> "PACKAGE_SPEC"
    [] kind = "TYPE"       -> "TYPE_SPEC"
    [] kind = "SUBTYPE"    -> "SUBTYPE_SPEC"
    [] kind = "VARIABLE"   -> "VARIABLE_SPEC"
    [] kind = "SUBPROGRAM" -> "SUBPROGRAM_SPEC"
    [] kind = "TASK"       -> "TASK_SPEC"
    [] kind = "PROTECTED"  -> "PROTECTED_SPEC"
    [] kind = "ENTRY"      -> "ENTRY_SPEC"
    [] OTHER               -> ADA_KIND_UNDEFINED

-----------------------------------------------------------------------------
(* The input source: fileReadLine, getSourceLineNumber, getInputFilePosition *)

RECURSIVE FilePos(_)
FilePos(n) == IF n <= 1 THEN 0 ELSE FilePos(n - 1) + Len(file[n - 1]) + 1

Line(c) == IF c.null \/ c.n = 0 THEN "" ELSE file[c.n]

lineLen(c) == Len(Line(c))

\* line[p] of the current line
LineCh(c, p) == CharAt(Line(c), p)

\* the raw fileReadLine() of skipUntilWhiteSpace and skipPastWord
RawRead(c) ==
  IF c.n < Len(file)
    THEN [c EXCEPT !.n = c.n + 1, !.null = FALSE, !.pos = 0]
    ELSE [c EXCEPT !.null = TRUE, !.pos = 0, !.exc = "EOF"]


\* eofCount's threshold in readNewLine
EofLimit == 1000

RECURSIVE readNewLine(_)
readNewLine(c) ==
  IF c.jmp THEN c
  ELSE IF c.n < Len(file)
    THEN LET c1 == [c EXCEPT !.n = c.n + 1, !.null = FALSE, !.pos = 0]
         IN  IF Len(file[c1.n]) > 0 THEN c1 ELSE readNewLine(c1)
    ELSE [c EXCEPT !.null = TRUE, !.pos = 0, !.exc = "EOF",
                   !.eof = c.eof + 1,
                   !.jmp = (c.eof + 1 >= EofLimit)]

movePos(c, amount) ==
  LET c1 == [c EXCEPT !.pos = c.pos + amount]
  IN  IF c1.exc # "EOF" /\ c1.pos >= lineLen(c1) THEN readNewLine(c1) ELSE c1

\* the macro isAdaComment(buf, pos, len)
isAdaComment(buf, p, len) ==
  /\ (p = 0 \/ (~isalnum(CharAt(buf, p - 1)) /\ CharAt(buf, p - 1) # "_"))
  /\ p < len
  /\ strncasecmp0(buf, p, "--")

atComment(c) == c.exc # "EOF" /\ isAdaComment(Line(c), c.pos, lineLen(c))

\* while(exception != EXCEPTION_EOF && isAdaComment(line, pos, lineLen)) readNewLine();
RECURSIVE skipComments(_)
skipComments(c) == IF atComment(c) THEN skipComments(readNewLine(c)) ELSE c

IsSep(ch) == isspace(ch) \/ ch \in {"(", ")", ":", ";"}

\* cmp(&buf[off], len, match); hasMatch = FALSE is match == NULL
cmp(buf, off, len, match, hasMatch) ==
  IF ~hasMatch THEN TRUE
  ELSE /\ strncasecmp0(buf, off, match)
       /\ \/ Len(match) = len
          \/ Len(match) < len /\ IsSep(CharAt(buf, off + Len(match)))

\* adaCmp(match): the status, and the scanner after the call
adaCmpOk(c, match, hasMatch) ==
  ~c.null /\ cmp(Line(c), c.pos, lineLen(c) - c.pos, match, hasMatch)

adaCmpCur(c, match, hasMatch) ==
  IF c.null THEN [c EXCEPT !.exc = "EOF"]
  ELSE IF adaCmpOk(c, match, hasMatch) /\ hasMatch
    THEN movePos([c EXCEPT !.mln = c.n, !.mfp = FilePos(c.n)], Len(match))
    ELSE c

\* adaKeywordCmp(keyword), keyword given by its text AdaKeywords[keyword]
adaKeywordCmpOk(c, kw) == adaCmpOk(c, kw, TRUE)

adaKeywordCmpCur(c, kw) == adaCmpCur(c, kw, TRUE)

RECURSIVE skipUntilWhiteSpaceLoop(_)
skipUntilWhiteSpaceLoop(c) ==
  IF c.exc # "EOF" /\ ~isspace(LineCh(c, c.pos))
    THEN LET c1 == [c EXCEPT !.pos = c.pos + 1]
         IN  IF c1.pos >= lineLen(c1) THEN RawRead(c1)
             ELSE skipUntilWhiteSpaceLoop(skipComments(c1))
    ELSE c

skipUntilWhiteSpace(c) == skipUntilWhiteSpaceLoop(skipComments(c))

RECURSIVE skipWhiteSpaceLoop(_)
skipWhiteSpaceLoop(c) ==
  IF c.exc # "EOF" /\ isspace(LineCh(c, c.pos))
    THEN skipWhiteSpaceLoop(skipComments(movePos(c, 1)))
    ELSE c

skipWhiteSpace(c) == skipWhiteSpaceLoop(skipComments(c))

RECURSIVE skipPastLoop(_, _)
skipPastLoop(c, past) ==
  IF c.exc # "EOF"
    THEN IF adaCmpOk(c, past, TRUE)
           THEN adaCmpCur(c, past, TRUE)
           ELSE skipPastLoop(skipComments(movePos(adaCmpCur(c, past, TRUE), 1)), past)
    ELSE c

skipPast(c, past) == skipPastLoop(skipComments(c), past)

skipPastKeyword(c, kw) == skipPast(c, kw)

RECURSIVE skipPastWordLoop(_)
skipPastWordLoop(c) ==
  IF c.exc # "EOF" /\ ~IsSep(LineCh(c, c.pos))
    THEN LET c1 == [c EXCEPT !.pos = c.pos + 1]
         IN  IF c1.pos >= lineLen(c1) THEN RawRead(c1)
             ELSE skipPastWordLoop(skipComments(c1))
    ELSE c

skipPastWord(c) == skipPastWordLoop(skipComments(c))

-----------------------------------------------------------------------------
(* The token tree.  A token is addressed by its index in heap; 0 is NULL.  *)
(* Four fields are history only, read by no operator of the parser: born   *)
(* is what newAdaToken saw of the parent when it set tag.isFileScope;      *)
(* given is the name newAdaToken was handed; body says the token's         *)
(* declaration had the keyword body; ending says how adaParseBlock /       *)
(* adaParseSubprogram left the declaration.                                *)

NULL == 0

NoParentSeen == [has |-> FALSE, kind |-> ADA_KIND_UNDEFINED,
                 isSpec |-> FALSE, isPrivate |-> FALSE]

ParentSeen(h, parent) ==
  IF parent = NULL THEN NoParentSeen
  ELSE [has |-> TRUE, kind |-> h[parent].kind,
        isSpec |-> h[parent].isSpec, isPrivate |-> h[parent].isPrivate]

\* a variant of NotFileScope that does not read the parent's isPrivate
NotFileScopeAnyPrivacy(h, parent) ==
  /\ parent # NULL
  /\ \/ h[parent].kind = ADA_KIND_UNDEFINED
     \/ h[parent].kind = ADA_KIND_SEPARATE
     \/ /\ h[parent].isSpec = TRUE
        /\ h[parent].kind \in {"PACKAGE", "SUBPROGRAM", "PROTECTED", "TASK"}

\* a variant of NotFileScope without the case of a separate parent
NotFileScopeNoSeparate(h, parent) ==
  /\ parent # NULL
  /\ h[parent].isPrivate = FALSE
  /\ \/ h[parent].kind = ADA_KIND_UNDEFINED
     \/ /\ h[parent].isSpec = TRUE
        /\ h[parent].kind \in {"PACKAGE", "SUBPROGRAM", "PROTECTED", "TASK"}

\* the test of newAdaToken that clears tag.isFileScope
NotFileScope(h, parent) ==
  /\ parent # NULL
  /\ h[parent].isPrivate = FALSE
  /\ \/ h[parent].kind = ADA_KIND_UNDEFINED
     \/ h[parent].kind = ADA_KIND_SEPARATE
     \/ /\ h[parent].isSpec = TRUE
        /\ h[parent].kind \in {"PACKAGE", "SUBPROGRAM", "PROTECTED", "TASK"}

\* initAdaTokenList(&h[t].children)
initAdaTokenList(h, t) ==
  IF t = NULL THEN h
  ELSE [h EXCEPT ![t].numTokens = 0, ![t].head = NULL, ![t].tail = NULL]

\* a variant of appendAdaToken that sets tag.isFileScope from the new parent
appendAdaTokenRescoped(h, parent, token) ==
  IF parent # NULL /\ token # NULL
    THEN LET oldTail == h[parent].tail
             h1 == [h EXCEPT ![token].parent = parent,
                             ![token].prev = oldTail,
                             ![token].next = NULL,
                             ![token].isFileScope = ~NotFileScope(h, parent)]
             h2 == IF oldTail # NULL THEN [h1 EXCEPT ![oldTail].next = token] ELSE h1
         IN  [h2 EXCEPT ![parent].numTokens = h[parent].numTokens + 1,
                        ![parent].tail = token,
                        ![parent].head = IF h[parent].head = NULL THEN token
                                         ELSE h[parent].head]
    ELSE h

appendAdaToken(h, parent, token) ==
  IF parent # NULL /\ token # NULL
    THEN LET oldTail == h[parent].tail
             h1 == [h EXCEPT ![token].parent = parent,
                             ![token].prev = oldTail,
                             ![token].next = NULL]
             h2 == IF oldTail # NULL THEN [h1 EXCEPT ![oldTail].next = token] ELSE h1
         IN  [h2 EXCEPT ![parent].numTokens = h[parent].numTokens + 1,
                        ![parent].tail = token,
                        ![parent].head = IF h[parent].head = NULL THEN token
                                         ELSE h[parent].head]
    ELSE h

\* a struct adaTokenInfo as allocated: only what the allocating code sets
RawToken ==
  [kind |-> ADA_KIND_UNDEFINED, isSpec |-> FALSE, isPrivate |-> FALSE,
   name |-> "", hasName |-> FALSE, parent |-> NULL, prev |-> NULL, next |-> NULL,
   numTokens |-> 0, head |-> NULL, tail |-> NULL,
   isFileScope |-> TRUE, lineNumber |-> 0, filePosition |-> 0,
   live |-> TRUE, born |-> NoParentSeen, given |-> "", body |-> FALSE,
   ending |-> "NONE"]

\* newAdaToken(name, len, kind, isSpec, parent); the token is Len(h) + 1.
\* hasName is name != NULL && len != 0; c gives initTagEntry its position.
newAdaToken(h, c, name, hasName, kind, isSpec, parent) ==
  LET token == Len(h) + 1
      t == [RawToken EXCEPT
              !.kind = kind, !.isSpec = isSpec, !.isPrivate = FALSE,
              !.name = IF hasName THEN name ELSE "", !.hasName = hasName,
              !.parent = parent,
              !.isFileScope = ~NotFileScope(h, parent),
              !.lineNumber = c.n, !.filePosition = FilePos(c.n),
              !.born = ParentSeen(h, parent),
              !.given = IF hasName THEN name ELSE ""]
  IN  appendAdaToken(Append(h, t), parent, token)

\* the name newAdaToken copies from &line[pos], len characters at most
NameAt(c, len) == strncpy(Line(c), c.pos, len)

\* &line[pos] != NULL && len != 0
HasNameAt(c, len) == ~c.null /\ len # 0

\* a variant of Unlink that leaves the tail of the list as it is
UnlinkKeepsTail(h, owner, token) ==
  [h EXCEPT
     ![IF h[token].prev # NULL THEN h[token].prev
       ELSE IF owner # NULL THEN owner ELSE token] =
         IF h[token].prev # NULL THEN [@ EXCEPT !.next = h[token].next]
         ELSE IF owner # NULL THEN [@ EXCEPT !.head = h[token].next]
         ELSE @,
     ![IF h[token].next # NULL THEN h[token].next ELSE token] =
         IF h[token].next # NULL THEN [@ EXCEPT !.prev = h[token].prev] ELSE @,
     ![IF owner # NULL THEN owner ELSE token] =
         IF owner # NULL THEN [@ EXCEPT !.numTokens = @ - 1] ELSE @,
     ![token].live = FALSE]

RECURSIVE freeAdaToken(_, _, _), freeAdaTokenList(_, _)
\* the list surgery of freeAdaToken: token leaves the list of owner
Unlink(h, owner, token) ==
  [h EXCEPT
     ![IF h[token].prev # NULL THEN h[token].prev
       ELSE IF owner # NULL THEN owner ELSE token] =
         IF h[token].prev # NULL THEN [@ EXCEPT !.next = h[token].next]
         ELSE IF owner # NULL THEN [@ EXCEPT !.head = h[token].next]
         ELSE @,
     ![IF h[token].next # NULL THEN h[token].next
       ELSE IF owner # NULL THEN owner ELSE token] =
         IF h[token].next # NULL THEN [@ EXCEPT !.prev = h[token].prev]
         ELSE IF owner # NULL THEN [@ EXCEPT !.tail = h[token].prev]
         ELSE @,
     ![IF owner # NULL THEN owner ELSE token] =
         IF owner # NULL THEN [@ EXCEPT !.numTokens = @ - 1] ELSE @,
     ![token].live = FALSE]

\* freeAdaToken(&h[owner].children, token); owner = NULL is list == NULL
freeAdaToken(h, owner, token) ==
  IF token = NULL THEN h
  ELSE Unlink(freeAdaTokenList([h EXCEPT ![token].name = "", ![token].hasName = FALSE],
                               token),
              owner, token)

\* freeAdaTokenList(&h[owner].children)
freeAdaTokenList(h, owner) ==
  IF owner # NULL /\ h[owner].head # NULL
    THEN freeAdaTokenList(freeAdaToken(h, owner, h[owner].head), owner)
    ELSE h

RECURSIVE appendAdaTokenListLoop(_, _, _)
appendAdaTokenListLoop(h, parent, children) ==
  IF h[children].head # NULL
    THEN LET hd  == h[children].head
             tmp == h[hd].next
             h1  == appendAdaToken(h, parent, hd)
         IN  appendAdaTokenListLoop([h1 EXCEPT ![children].head = tmp],
                                    parent, children)
    ELSE h

\* appendAdaTokenList(&h[parent], &h[children].children)
appendAdaTokenList(h, parent, children) ==
  IF parent # NULL /\ children # NULL
    THEN initAdaTokenList(appendAdaTokenListLoop(h, parent, children), children)
    ELSE h

\* the children of a token, in list order (head, head->next, ...)
RECURSIVE ListFrom(_, _)
ListFrom(h, t) == IF t = NULL THEN << >> ELSE <<t>> \o ListFrom(h, h[t].next)

Children(h, t) == ListFrom(h, h[t].head)

-----------------------------------------------------------------------------
(* adaParseVariables.  The locals of the first loop are the record v:      *)
(* c the scanner, kind, varEndPos, tokenStart, depth (the C variable i),   *)
(* bufPos, buf (bufLen is Len(buf)), filePos[0..filePosIndex] and lineNum; *)
(* brk says the loop was left by break.  The locals of the second loop are *)
(* the record w: h the heap, i, tokenStart, filePosIndex and token.        *)

\* the branch taken for the character at bufPos
VarScanChar(v) ==
  LET buf    == v.buf
      bufPos == v.bufPos
      bufLen == Len(v.buf)
      ch     == CharAt(buf, bufPos)
      nxt    == CharAt(buf, bufPos + 1)
  IN
  IF isAdaComment(buf, bufPos, bufLen)
    THEN [v EXCEPT !.bufPos = bufLen - 1,
                   !.tokenStart = IF v.tokenStart # -2 THEN -1 ELSE v.tokenStart]
  ELSE IF ch = "(" THEN [v EXCEPT !.depth = v.depth + 1]
  ELSE IF ch = ")"
    THEN IF v.depth = 0 THEN [v EXCEPT !.brk = TRUE]
         ELSE [v EXCEPT !.depth = v.depth - 1]
  ELSE IF \/ ch = ";"
          \/ /\ bufPos + 1 < bufLen
             /\ strncasecmp0(buf, bufPos, ":=") \/ strncasecmp0(buf, bufPos, "=>")
    THEN [v EXCEPT !.brk = TRUE]
  ELSE IF ch = ":" /\ (bufPos + 1 >= bufLen \/ nxt # "=")
    THEN [v EXCEPT !.varEndPos = bufPos]
  ELSE IF v.kind = "VARIABLE" /\ v.varEndPos # -1 /\ ~isspace(ch) /\ v.tokenStart = -1
    THEN [v EXCEPT !.tokenStart = bufPos]
  ELSE IF /\ v.kind = "VARIABLE" /\ v.varEndPos # -1 /\ v.tokenStart >= 0
          /\ (bufPos + 1 >= bufLen \/ isspace(nxt) \/ nxt = ";")
    THEN [v EXCEPT
            !.kind = IF cmp(buf, v.tokenStart, bufLen - v.tokenStart, "constant", TRUE)
                       THEN "CONSTANT"
                     ELSE IF cmp(buf, v.tokenStart, bufLen - v.tokenStart, "exception", TRUE)
                       THEN "EXCEPTION"
                     ELSE v.kind,
            !.tokenStart = -2]
  ELSE v

\* history: memcpy is called with the line as its source; nullCopy records
\* that the line was absent at such a call
NullCopy(c) == [c EXCEPT !.nullCopy = @ \/ c.null]

\* unless the loop was left: bufPos++ and, past the end of the buffer, the
\* refill with the next line
VarScanAdvance(v) ==
  IF v.brk THEN v
  ELSE IF v.c.exc # "EOF" /\ v.bufPos + 1 >= Len(v.buf)
    THEN LET c1 == NullCopy(readNewLine(v.c))
         IN  [v EXCEPT !.c = c1,
                       !.filePos = Append(v.filePos, FilePos(c1.n)),
                       !.bufPos = v.bufPos + 2,
                       !.buf = v.buf \o NUL \o Line(c1)]
    ELSE [v EXCEPT !.bufPos = v.bufPos + 1]

\* while(exception != EXCEPTION_EOF) { ... }
RECURSIVE VarScan(_)
VarScan(v) ==
  IF v.c.exc = "EOF" \/ v.brk THEN v ELSE VarScan(VarScanAdvance(VarScanChar(v)))

IsNameGap(ch) == isspace(ch) \/ ch = "," \/ ch = NUL

\* for( ; i < varEndPos && buf[i] != '\0'; i++);
RECURSIVE SkipToNul(_, _, _)
SkipToNul(buf, i, varEndPos) ==
  IF i < varEndPos /\ CharAt(buf, i) # NUL THEN SkipToNul(buf, i + 1, varEndPos) ELSE i

\* one token of the list, buf[tokenStart..i-1]: its line and position come
\* from the filePos table
VarToken(w, v, parent) ==
  [w EXCEPT
     !.h = [newAdaToken(w.h, v.c, strncpy(v.buf, w.tokenStart, w.i - w.tokenStart),
                        w.i - w.tokenStart # 0, v.kind, FALSE, parent)
              EXCEPT ![Len(w.h) + 1].lineNumber = v.lineNum + w.filePosIndex,
                     ![Len(w.h) + 1].filePosition = v.filePos[w.filePosIndex + 1]],
     !.token = Len(w.h) + 1]

\* the branch of the second loop taken for buf[i]
VarStep(w, v, varEndPos, parent) ==
  IF isAdaComment(v.buf, w.i, varEndPos)
    THEN [w EXCEPT !.i = SkipToNul(v.buf, w.i, varEndPos)]
  ELSE IF w.tokenStart # -1 /\ IsNameGap(CharAt(v.buf, w.i))
    THEN IF /\ ~cmp(v.buf, w.tokenStart, varEndPos, "in", TRUE)
            /\ ~cmp(v.buf, w.tokenStart, varEndPos, "out", TRUE)
           THEN [VarToken(w, v, parent) EXCEPT !.tokenStart = -1]
           ELSE [w EXCEPT !.tokenStart = -1]
  ELSE IF w.tokenStart = -1 /\ ~IsNameGap(CharAt(v.buf, w.i))
    THEN [w EXCEPT !.tokenStart = w.i]
  ELSE w

\* the end of an iteration of the second loop: the line count, then i++
VarNext(w, buf) ==
  [w EXCEPT !.filePosIndex = IF CharAt(buf, w.i) = NUL THEN @ + 1 ELSE @,
            !.i = @ + 1]

\* for(i = 0; i < varEndPos; i++) { ... }
RECURSIVE VarNames(_, _, _, _)
VarNames(w, v, varEndPos, parent) ==
  IF w.i >= varEndPos THEN w
  ELSE VarNames(VarNext(VarStep(w, v, varEndPos, parent), v.buf), v, varEndPos, parent)

\* the locals before the first loop, c0 being the scanner at the list
VarStart(c0, kind) ==
  [c |-> NullCopy(c0), kind |-> kind, varEndPos |-> -1, tokenStart |-> -1,
   depth |-> 0, bufPos |-> 0, brk |-> FALSE,
   buf |-> SubSeq(Line(c0), c0.pos + 1, lineLen(c0)),
   filePos |-> <<FilePos(c0.n)>>, lineNum |-> c0.n]

\* varEndPos after the first loop: an enumeration closes on its ")"
VarEndPos(v) ==
  IF v.kind = "ENUM_LITERAL" /\ CharAt(v.buf, v.bufPos) = ")" /\ v.varEndPos = -1
    THEN v.bufPos ELSE v.varEndPos

\* the last name, then pos is set back to where the first loop stopped
VarResult(w, v, parent) ==
  LET wl == IF VarEndPos(v) # -1 /\ w.tokenStart # -1 THEN VarToken(w, v, parent)
            ELSE w
  IN  [h |-> wl.h,
       c |-> movePos(v.c, (lineLen(v.c) - (Len(v.buf) - v.bufPos)) - v.c.pos),
       token |-> wl.token]

\* what follows the first loop, v being its locals at its end
VarList(h, v, parent) ==
  VarResult(IF VarEndPos(v) # -1
              THEN VarNames([h |-> h, i |-> 0, tokenStart |-> 0, filePosIndex |-> 0,
                             token |-> NULL], v, VarEndPos(v), parent)
              ELSE [h |-> h, i |-> 0, tokenStart |-> 0, filePosIndex |-> 0,
                    token |-> NULL],
            v, parent)

\* adaParseVariables(parent, kind): the heap, the scanner and the token returned
adaParseVariables(h, c, parent, kind) ==
  VarList(h, VarScan(VarStart(skipComments(skipWhiteSpace(c)), kind)), parent)

-----------------------------------------------------------------------------
(* adaParseBlock, adaParseSubprogram, adaParseType, adaParseLoopVar.  The  *)
(* state of a routine is a record q: the heap h, the scanner c and token.  *)
(* adaParseBlock and adaParseSubprogram yield in addition descend, the     *)
(* mode of the adaParse call the routine is about to make on token ("NONE" *)
(* when it returns without one): after that call the routine only breaks   *)
(* out of its loop and returns token.                                      *)

\* the first of the keywords kws that adaKeywordCmp matches, "" when none does
RECURSIVE FirstWord(_, _)
FirstWord(c, kws) ==
  IF kws = << >> THEN ""
  ELSE IF adaKeywordCmpOk(c, Head(kws)) THEN Head(kws)
  ELSE FirstWord(c, Tail(kws))

\* the scanner after adaKeywordCmp(k1) || adaKeywordCmp(k2) || ...
adaKeywordCmpAny(c, kws) ==
  adaKeywordCmpCur(c, IF FirstWord(c, kws) = "" THEN Head(kws) ELSE FirstWord(c, kws))

\* for(i = 1; (pos + i) < lineLen && !isspace(line[pos + i]) && <not in stops>; i++);
RECURSIVE TagLen(_, _, _)
TagLen(c, i, stops) ==
  IF /\ c.pos + i < lineLen(c)
     /\ ~isspace(LineCh(c, c.pos + i))
     /\ LineCh(c, c.pos + i) \notin stops
    THEN TagLen(c, i + 1, stops)
    ELSE i

\* while(exception != EXCEPTION_EOF && line[pos] != ')')
\*   { movePos(1); tmpToken = adaParseVariables(owner, ADA_KIND_AUTOMATIC_VARIABLE); }
RECURSIVE ParenVarsLoop(_, _)
ParenVarsLoop(q, owner) ==
  IF q.c.exc # "EOF" /\ LineCh(q.c, q.c.pos) # ")"
    THEN ParenVarsLoop(adaParseVariables(q.h, movePos(q.c, 1), owner,
                                         "AUTOMATIC_VARIABLE"), owner)
    ELSE q

\* the loop above followed by movePos(1); token is the last tmpToken
ParenVars(h, c, owner) ==
  [ParenVarsLoop([h |-> h, c |-> c, token |-> NULL], owner) EXCEPT !.c = movePos(@, 1)]

AtParen(c) == c.exc # "EOF" /\ LineCh(c, c.pos) = "("

\* history: the way the declaration of token was left
Ended(h, token, how) == [h EXCEPT ![token].ending = how]

\* the name at the scanner c1 becomes a token; the scanner moves past the
\* name and the white space after it
NewNamed(h, c1, kind, isSpec, parent) ==
  LET i == TagLen(c1, 1, {"(", ";"})
  IN  [h |-> newAdaToken(h, c1, NameAt(c1, i), HasNameAt(c1, i), kind, isSpec, parent),
       c |-> skipWhiteSpace(movePos(c1, i)),
       token |-> Len(h) + 1]

\* a variant of AfterIs that keeps the token of an "is separate" declaration
AfterIsKept(q, parent) ==
  IF adaKeywordCmpOk(q.c, "separate")
    THEN [h |-> Ended(q.h, q.token, "separate"),
          c |-> skipPast(adaKeywordCmpCur(q.c, "separate"), ";"),
          token |-> q.token, descend |-> "NONE"]
  ELSE IF adaKeywordCmpOk(q.c, "new")
    THEN [h |-> Ended(q.h, q.token, "new"),
          c |-> skipPast(adaKeywordCmpCur(q.c, "new"), ";"),
          token |-> q.token, descend |-> "NONE"]
  ELSE [h |-> Ended(q.h, q.token, "descent"),
        c |-> adaKeywordCmpAny(q.c, <<"separate", "new">>),
        token |-> q.token, descend |-> "DECLARATIONS"]

\* what follows a matched "is" and skipWhiteSpace() in adaParseBlock and
\* adaParseSubprogram
AfterIs(q, parent) ==
  IF adaKeywordCmpOk(q.c, "separate")
    THEN [h |-> Ended(freeAdaToken(q.h, parent, q.token), q.token, "separate"),
          c |-> skipPast(adaKeywordCmpCur(q.c, "separate"), ";"),
          token |-> NULL, descend |-> "NONE"]
  ELSE IF adaKeywordCmpOk(q.c, "new")
    THEN [h |-> Ended(q.h, q.token, "new"),
          c |-> skipPast(adaKeywordCmpCur(q.c, "new"), ";"),
          token |-> q.token, descend |-> "NONE"]
  ELSE [h |-> Ended(q.h, q.token, "descent"),
        c |-> adaKeywordCmpAny(q.c, <<"separate", "new">>),
        token |-> q.token, descend |-> "DECLARATIONS"]

\* while(token != NULL) of adaParseBlock; again says an iteration has run
\* to its end, where the loop tests for EXCEPTION_EOF
RECURSIVE BlockLoop(_, _, _)
\* an iteration, after its skipWhiteSpace()
BlockStep(q, parent) ==
  IF adaKeywordCmpOk(q.c, "is")
    THEN AfterIs([q EXCEPT !.c = skipWhiteSpace(adaKeywordCmpCur(@, "is"))], parent)
  ELSE IF adaKeywordCmpOk(q.c, "renames")
    THEN [h |-> Ended(q.h, q.token, "renames"),
          c |-> skipPast(adaKeywordCmpCur(q.c, "renames"), ";"),
          token |-> q.token, descend |-> "NONE"]
  ELSE IF adaCmpOk(q.c, ";", TRUE)
    THEN [h |-> Ended([q.h EXCEPT ![q.token].isSpec = TRUE], q.token, "semicolon"),
          c |-> adaCmpCur(q.c, ";", TRUE),
          token |-> q.token, descend |-> "NONE"]
  ELSE BlockLoop([q EXCEPT !.c = skipUntilWhiteSpace(adaCmpCur(@, ";", TRUE))],
                 parent, TRUE)

BlockLoop(q, parent, again) ==
  IF again /\ q.c.exc = "EOF"
    THEN [h |-> Ended(freeAdaToken(q.h, parent, q.token), q.token, "eof"),
          c |-> q.c, token |-> NULL, descend |-> "NONE"]
    ELSE BlockStep([q EXCEPT !.c = skipWhiteSpace(@)], parent)

\* the discriminants or parameters of q.token, if the scanner is at "("
Params(q) ==
  IF AtParen(q.c) THEN [ParenVars(q.h, q.c, q.token) EXCEPT !.token = q.token] ELSE q

\* adaParseBlock from the name on; isBody is the history field body
BlockName(q, parent, isBody) ==
  BlockLoop(Params([q EXCEPT !.h = [@ EXCEPT ![q.token].body = isBody]]), parent, FALSE)

adaParseBlock(h, c, parent, kind) ==
  LET c1 == skipWhiteSpace(c)
      isBody == adaKeywordCmpOk(c1, "body")
  IN  IF ~isBody /\ adaKeywordCmpOk(c1, "type") /\ kind # "PROTECTED" /\ kind # "TASK"
        THEN [h |-> h, c |-> adaKeywordCmpCur(c1, "type"),
              token |-> NULL, descend |-> "NONE"]
        ELSE BlockName(NewNamed(h, skipWhiteSpace(adaKeywordCmpAny(c1, <<"body", "type">>)),
                                kind, ~isBody, parent),
                       parent, isBody)

\* while(exception != EXCEPTION_EOF && token != NULL) of adaParseSubprogram
RECURSIVE SubprogramLoop(_, _)
\* an iteration, after its skipWhiteSpace()
SubprogramStep(q, parent) ==
  IF adaKeywordCmpOk(q.c, "is")
    THEN AfterIs([q EXCEPT !.c = skipWhiteSpace(adaKeywordCmpCur(@, "is"))], parent)
  ELSE IF adaKeywordCmpOk(q.c, "renames")
    THEN [h |-> Ended(q.h, q.token, "renames"),
          c |-> skipPast(adaKeywordCmpCur(q.c, "renames"), ";"),
          token |-> q.token, descend |-> "NONE"]
  ELSE IF adaKeywordCmpOk(q.c, "do")
    THEN [h |-> Ended(q.h, q.token, "descent"),
          c |-> adaKeywordCmpCur(q.c, "do"),
          token |-> q.token, descend |-> "CODE"]
  ELSE IF adaCmpOk(q.c, ";", TRUE)
    THEN [h |-> Ended([q.h EXCEPT ![q.token].isSpec = TRUE], q.token, "semicolon"),
          c |-> adaCmpCur(q.c, ";", TRUE),
          token |-> q.token, descend |-> "NONE"]
  ELSE SubprogramLoop([q EXCEPT !.c = skipPastWord(movePos(adaCmpCur(@, ";", TRUE), 1))],
                      parent)

SubprogramLoop(q, parent) ==
  IF q.c.exc = "EOF"
    THEN [h |-> Ended(q.h, q.token, "eof"), c |-> q.c, token |-> q.token,
          descend |-> "NONE"]
    ELSE SubprogramStep([q EXCEPT !.c = skipWhiteSpace(@)], parent)

\* after the first parenthesis pair, d.token being tmpToken: an entry whose
\* first pair gave nothing may have a second pair
EntryFamily(d, token, kind) ==
  IF kind = "ENTRY" /\ d.token = NULL
    THEN Params([d EXCEPT !.c = skipWhiteSpace(@), !.token = token])
    ELSE [d EXCEPT !.token = token]

\* adaParseSubprogram from the name on
SubprogramName(q, parent, kind) ==
  SubprogramLoop(IF AtParen(q.c) THEN EntryFamily(ParenVars(q.h, q.c, q.token),
                                                  q.token, kind)
                 ELSE q,
                 parent)

adaParseSubprogram(h, c, parent, kind) ==
  SubprogramName(NewNamed(h, skipWhiteSpace(c), kind, FALSE, parent), parent, kind)

\* the record loop of adaParseType: until "end record" the components
RECURSIVE RecordLoop(_)
\* a variant of RecordStep without the branch for "case"
RecordStepNoCase(q, word) ==
  IF word = "end"
    THEN IF adaKeywordCmpOk(skipWhiteSpace(adaKeywordCmpCur(q.c, "end")), "record")
           THEN [q EXCEPT !.c = adaKeywordCmpCur(
                                  skipWhiteSpace(adaKeywordCmpCur(@, "end")), "record")]
           ELSE RecordLoop([q EXCEPT !.c = skipPast(adaKeywordCmpCur(
                              skipWhiteSpace(adaKeywordCmpCur(@, "end")), "record"), ";")])
  ELSE IF word = "when"
    THEN RecordLoop([q EXCEPT !.c = skipPast(adaKeywordCmpCur(@, "when"), "=>")])
  ELSE RecordLoop([adaParseVariables(q.h, adaKeywordCmpCur(q.c, "end"), q.token,
                                     "RECORD_COMPONENT")
                     EXCEPT !.c = skipPast(@, ";"), !.token = q.token])

\* an iteration, after its skipWhiteSpace(); word is the keyword found there
RecordStep(q, word) ==
  IF word = "end"
    THEN IF adaKeywordCmpOk(skipWhiteSpace(adaKeywordCmpCur(q.c, "end")), "record")
           THEN [q EXCEPT !.c = adaKeywordCmpCur(
                                  skipWhiteSpace(adaKeywordCmpCur(@, "end")), "record")]
           ELSE RecordLoop([q EXCEPT !.c = skipPast(adaKeywordCmpCur(
                              skipWhiteSpace(adaKeywordCmpCur(@, "end")), "record"), ";")])
  ELSE IF word = "case"
    THEN RecordLoop([q EXCEPT !.c = skipPastKeyword(adaKeywordCmpCur(@, "case"), "is")])
  ELSE IF word = "when"
    THEN RecordLoop([q EXCEPT !.c = skipPast(adaKeywordCmpCur(@, "when"), "=>")])
  ELSE RecordLoop([adaParseVariables(q.h, adaKeywordCmpCur(q.c, "end"), q.token,
                                     "RECORD_COMPONENT")
                     EXCEPT !.c = skipPast(@, ";"), !.token = q.token])

RecordLoop(q) ==
  IF q.c.exc = "EOF" THEN q
  ELSE RecordStep([q EXCEPT !.c = skipWhiteSpace(@)],
                  FirstWord(skipWhiteSpace(q.c), <<"end", "case", "when">>))

\* adaParseType after a matched "is" and skipWhiteSpace()
TypeIs(q) ==
  IF AtParen(q.c)
    THEN [adaParseVariables(q.h, movePos(q.c, 1), q.token, "ENUM_LITERAL")
            EXCEPT !.token = q.token]
  ELSE IF adaKeywordCmpOk(q.c, "record")
    THEN RecordLoop([q EXCEPT !.c = adaKeywordCmpCur(@, "record")])
  ELSE [q EXCEPT !.c = adaKeywordCmpCur(@, "record")]

\* adaParseType from the test for "is" on
TypeBody(q) ==
  [IF adaKeywordCmpOk(q.c, "is")
     THEN TypeIs([q EXCEPT !.c = skipWhiteSpace(adaKeywordCmpCur(@, "is"))])
     ELSE [q EXCEPT !.h = [@ EXCEPT ![q.token].isSpec = TRUE],
                    !.c = adaKeywordCmpCur(@, "is")]
   EXCEPT !.c = skipPast(@, ";")]

\* history: the end of input came before "is" or ";" of the type
TypeEnded(q) ==
  IF q.c.exc = "EOF" THEN [q EXCEPT !.h = Ended(@, q.token, "eof")] ELSE q

\* adaParseType from the name on: a discriminant part, then the rest
TypeName(q) ==
  TypeBody(TypeEnded(IF AtParen(q.c)
                       THEN [ParenVars(q.h, q.c, q.token)
                               EXCEPT !.c = skipWhiteSpace(@), !.token = q.token]
                       ELSE q))

adaParseType(h, c, parent, kind) ==
  TypeName(NewNamed(h, skipWhiteSpace(c), kind, FALSE, parent))

\* adaParseLoopVar after its skipWhiteSpace()
\* for(i = 1; (pos + i) < lineLen && !isspace(line[pos + i]); i++);
LoopVar(h, c1, parent) ==
  LET i == TagLen(c1, 1, {})
  IN  [h |-> newAdaToken(h, c1, NameAt(c1, i), HasNameAt(c1, i),
                         "AUTOMATIC_VARIABLE", FALSE, parent),
       c |-> skipPastKeyword(movePos(c1, i), "loop"),
       token |-> Len(h) + 1]

adaParseLoopVar(h, c, parent) == LoopVar(h, skipWhiteSpace(c), parent)

-----------------------------------------------------------------------------
(* adaParse.  An activation is a frame: mode, parent, token, gen (the      *)
(* address of its genericParamsRoot) and ret, what its caller does when it *)
(* returns: "top" (findAdaTags), "post" (called from adaParseBlock or      *)
(* adaParseSubprogram within a root, generic or declarations iteration,    *)
(* which then runs its check of token) or "void" (a code-mode caller,      *)
(* which only breaks).  One iteration of the while loop yields an outcome: *)
(* act "loop" (next iteration), "call" (an adaParse call is made on        *)
(* cparent in cmode) or "return" (return token).  The if / else-if chain   *)
(* of a mode is the list of its keywords in the order they are tried; the  *)
(* branch operators get the scanner as the matching adaKeywordCmp left it. *)

Loop(h, c, mode, parent, token) ==
  [h |-> h, c |-> c, mode |-> mode, parent |-> parent, token |-> token,
   act |-> "loop", cmode |-> "NONE", cparent |-> NULL, cret |-> "void"]

Call(h, c, mode, parent, token, cmode, cparent, cret) ==
  [h |-> h, c |-> c, mode |-> mode, parent |-> parent, token |-> token,
   act |-> "call", cmode |-> cmode, cparent |-> cparent, cret |-> cret]

\* a variant of Return that stays in the loop of adaParse
ReturnStays(h, c, mode, parent, token) ==
  [h |-> h, c |-> c, mode |-> mode, parent |-> parent, token |-> token,
   act |-> "loop", cmode |-> "NONE", cparent |-> NULL, cret |-> "void"]

Return(h, c, mode, parent, token) ==
  [h |-> h, c |-> c, mode |-> mode, parent |-> parent, token |-> token,
   act |-> "return", cmode |-> "NONE", cparent |-> NULL, cret |-> "void"]

RootKinds == {"PACKAGE", "SUBPROGRAM", "TASK", "PROTECTED"}

\* if(token != NULL) ... at the end of a root, generic or declarations iteration
PostIter(mode, h, token, gen) ==
  IF mode = "ROOT"
    THEN [h |-> IF token # NULL THEN appendAdaTokenList(h, token, gen) ELSE h,
          mode |-> "ROOT"]
  ELSE IF mode = "GENERIC"
    THEN IF token # NULL
           THEN [h |-> appendAdaTokenList(h, token, gen), mode |-> "ROOT"]
           ELSE [h |-> h, mode |-> "GENERIC"]
  ELSE IF mode = "DECLARATIONS"
    THEN [h |-> IF token # NULL /\ h[token].kind \in RootKinds
                  THEN appendAdaTokenList(h, token, gen) ELSE h,
          mode |-> "DECLARATIONS"]
  ELSE [h |-> h, mode |-> mode]

\* the outcome of an iteration whose branch left q.token without a call
AfterPlain(f, q) ==
  LET p == PostIter(f.mode, q.h, q.token, f.gen)
  IN  Loop(p.h, q.c, p.mode, f.parent, q.token)

\* the outcome of an iteration whose branch ran a block or subprogram parser (q)
AfterUnit(f, q) ==
  IF q.descend # "NONE"
    THEN Call(q.h, q.c, f.mode, f.parent, q.token, q.descend, q.token, "post")
    ELSE AfterPlain(f, q)

\* the keywords that start a program unit, as the modes try them
UnitWords == <<"package", "procedure", "function", "task", "protected">>

IsUnitWord(word) ==
  word \in {"package", "procedure", "function", "task", "protected", "entry"}

UnitKind(word) ==
  CASE word = "package"                   -> "PACKAGE"
    [] word \in {"procedure", "function"} -> "SUBPROGRAM"
    [] word = "task"                      -> "TASK"
    [] word = "protected"                 -> "PROTECTED"
    [] word = "entry"                     -> "ENTRY"

\* token = adaParseBlock(parent, kind) or adaParseSubprogram(parent, kind)
UnitStart(h, c, parent, word) ==
  IF word \in {"package", "task", "protected"}
    THEN adaParseBlock(h, c, parent, UnitKind(word))
    ELSE adaParseSubprogram(h, c, parent, UnitKind(word))

\* a variant of SeparateName that leaves parent as it was
SeparateNameSibling(f, h, c2) ==
  LET i == TagLen(c2, 1, {")"})
  IN  Loop(newAdaToken(h, c2, NameAt(c2, i), HasNameAt(c2, i),
                       ADA_KIND_SEPARATE, FALSE, f.parent),
           skipPast(c2, ")"), f.mode, f.parent, NULL)

\* "separate (" name: the token becomes the parent of what follows
SeparateName(f, h, c2) ==
  LET i == TagLen(c2, 1, {")"})
  IN  Loop(newAdaToken(h, c2, NameAt(c2, i), HasNameAt(c2, i),
                       ADA_KIND_SEPARATE, FALSE, f.parent),
           skipPast(c2, ")"), f.mode, Len(h) + 1, NULL)

\* "separate" in root mode, after its skipWhiteSpace()
Separate(f, h, c1) ==
  IF AtParen(c1) THEN SeparateName(f, h, skipWhiteSpace(movePos(c1, 1)))
  ELSE AfterPlain(f, [h |-> h, c |-> skipPast(c1, ";"), token |-> f.token])

RootWords == UnitWords \o <<"generic", "separate">>

\* case ADA_ROOT
RootBranch(f, h, c, word) ==
  IF IsUnitWord(word) THEN AfterUnit(f, UnitStart(h, c, f.parent, word))
  ELSE IF word = "generic" THEN Loop(h, c, "GENERIC", f.parent, f.token)
  ELSE IF word = "separate" THEN Separate(f, h, skipWhiteSpace(c))
  ELSE AfterPlain(f, [h |-> h, c |-> skipPast(c, ";"), token |-> NULL])

RootIter(f, h, c) ==
  RootBranch(f, h, adaKeywordCmpAny(c, RootWords), FirstWord(c, RootWords))

\* appendAdaToken(&genericParamsRoot, newAdaToken(&line[pos], i, ADA_KIND_FORMAL, FALSE, NULL))
NewFormal(f, h, c, i) ==
  appendAdaToken(newAdaToken(h, c, NameAt(c, i), HasNameAt(c, i), "FORMAL", FALSE, NULL),
                 f.gen, Len(h) + 1)

\* "type" in generic mode, after its skipWhiteSpace()
FormalType(f, h, c1) ==
  AfterPlain(f, [h |-> NewFormal(f, h, c1, TagLen(c1, 1, {"(", ";"})),
                 c |-> skipPast(c1, ";"), token |-> f.token])

\* the parameters of a formal subprogram, from movePos(i) on
FormalParams(f, h1, c2) ==
  AfterPlain(f, [IF AtParen(c2) THEN ParenVars(h1, c2, h1[f.gen].tail)
                 ELSE [h |-> h1, c |-> c2, token |-> NULL]
                   EXCEPT !.c = skipPast(@, ";"), !.token = f.token])

\* "with" in generic mode, at the name of the formal subprogram
FormalWith(f, h, c1) ==
  FormalParams(f, NewFormal(f, h, c1, TagLen(c1, 1, {"(", ";"})),
               movePos(c1, TagLen(c1, 1, {"(", ";"})))

GenericWords == UnitWords \o <<"type", "with">>

\* case ADA_GENERIC
GenericBranch(f, h, c, word) ==
  IF IsUnitWord(word) THEN AfterUnit(f, UnitStart(h, c, f.parent, word))
  ELSE IF word = "type" THEN FormalType(f, h, skipWhiteSpace(c))
  ELSE IF word = "with"
    THEN FormalWith(f, h, skipWhiteSpace(skipUntilWhiteSpace(skipWhiteSpace(c))))
  ELSE AfterPlain(f, [h |-> h, c |-> skipPast(c, ";"), token |-> NULL])

GenericIter(f, h, c) ==
  GenericBranch(f, h, adaKeywordCmpAny(c, GenericWords), FirstWord(c, GenericWords))

\* "end" in declarations and exceptions mode, after its skipWhiteSpace():
\* return on the parent's name; otherwise token becomes tokElse
EndPlain(f, h, c1, tokElse) ==
  IF adaCmpOk(c1, h[f.parent].name, h[f.parent].hasName)
    THEN Return(h, skipPast(adaCmpCur(c1, h[f.parent].name, h[f.parent].hasName), ";"),
                f.mode, f.parent, f.token)
    ELSE Loop(h, skipPast(adaCmpCur(c1, h[f.parent].name, h[f.parent].hasName), ";"),
              f.mode, f.parent, tokElse)

\* "for ... use" in declarations mode, after skipPastKeyword(use) and
\* skipWhiteSpace(): a record representation clause is skipped to "record"
ForUse(c1) ==
  IF adaKeywordCmpOk(c1, "record")
    THEN skipPastKeyword(adaKeywordCmpCur(c1, "record"), "record")
    ELSE adaKeywordCmpCur(c1, "record")

\* a variant of Private that also makes the children of parent file-scoped
PrivateHidesChildren(h, parent) ==
  [u \in 1..Len(h) |->
     IF u = parent THEN [h[u] EXCEPT !.isPrivate = TRUE]
     ELSE IF h[u].parent = parent THEN [h[u] EXCEPT !.isFileScope = TRUE]
     ELSE h[u]]

\* "private" in declarations mode
Private(h, parent) ==
  IF parent # NULL THEN [h EXCEPT ![parent].isPrivate = TRUE] ELSE h

DeclarationsWords ==
  UnitWords \o <<"generic", "type", "subtype", "begin", "for", "end", "entry", "private">>

\* case ADA_DECLARATIONS
DeclarationsBranch(f, h, c, word) ==
  IF IsUnitWord(word) THEN AfterUnit(f, UnitStart(h, c, f.parent, word))
  ELSE IF word = "generic" THEN Loop(h, c, "GENERIC", f.parent, f.token)
  ELSE IF word \in {"type", "subtype"}
    THEN AfterPlain(f, adaParseType(h, c, f.parent,
                                    IF word = "type" THEN "TYPE" ELSE "SUBTYPE"))
  ELSE IF word = "begin" THEN Loop(h, c, "CODE", f.parent, f.token)
  ELSE IF word = "for"
    THEN AfterPlain(f, [h |-> h,
                        c |-> skipPast(ForUse(skipWhiteSpace(skipPastKeyword(c, "use"))),
                                       ";"),
                        token |-> f.token])
  ELSE IF word = "end" THEN EndPlain(f, h, skipWhiteSpace(c), NULL)
  ELSE IF word = "private"
    THEN AfterPlain(f, [h |-> Private(h, f.parent), c |-> skipWhiteSpace(c),
                        token |-> f.token])
  ELSE AfterPlain(f, [adaParseVariables(h, c, f.parent, "VARIABLE")
                        EXCEPT !.c = skipPast(@, ";")])

DeclarationsIter(f, h, c) ==
  DeclarationsBranch(f, h, adaKeywordCmpAny(c, DeclarationsWords),
                     FirstWord(c, DeclarationsWords))

\* token = newAdaToken(...ADA_KIND_ANONYMOUS...); stamp says lineNumber and
\* filePosition are then set from matchLineNum and matchFilePos
Anonymous(h, c, name, hasName, parent, stamp) ==
  IF stamp
    THEN [newAdaToken(h, c, name, hasName, "ANONYMOUS", FALSE, parent)
            EXCEPT ![Len(h) + 1].lineNumber = c.mln,
                   ![Len(h) + 1].filePosition = c.mfp]
    ELSE newAdaToken(h, c, name, hasName, "ANONYMOUS", FALSE, parent)

\* for(i = 1; (pos + i) < lineLen && strncasecmp(&line[pos + i], ">>", 2) != 0; i++);
RECURSIVE LabelLen(_, _)
LabelLen(c, i) ==
  IF c.pos + i < lineLen(c) /\ ~strncasecmp0(Line(c), c.pos + i, ">>")
    THEN LabelLen(c, i + 1)
    ELSE i

\* the lookahead for "<word>:": 0 when the for loop ends without a token
RECURSIVE IdentLen(_, _)
IdentLen(c, i) ==
  IF c.pos + i < lineLen(c)
    THEN IF /\ ~isalnum(LineCh(c, c.pos + i))
            /\ LineCh(c, c.pos + i) # "_" /\ LineCh(c, c.pos + i) # ":"
           THEN 0
         ELSE IF LineCh(c, c.pos + i) = ":" /\ LineCh(c, c.pos + i + 1) # "="
           THEN i
         ELSE IdentLen(c, i + 1)
    ELSE 0

\* adaParse(cmode, token) called from code mode, token being the new token
CallOn(f, h, c, token, cmode) ==
  Call(h, c, f.mode, f.parent, token, cmode, token, "void")

\* adaParseLoopVar(token); adaParse(ADA_CODE, token); q is the former's result
ForLoop(f, q, token) == CallOn(f, q.h, q.c, token, "CODE")

IdentifierWords == <<"declare", "begin", "for", "while", "loop">>

\* a variant of IdentifierBranch that leaves the identifier in the tree
IdentifierBranchKeeps(f, h, c, token, word) ==
  IF word = "declare" THEN CallOn(f, h, c, token, "DECLARATIONS")
  ELSE IF word = "begin" THEN CallOn(f, h, c, token, "CODE")
  ELSE IF word = "for" THEN ForLoop(f, adaParseLoopVar(h, c, token), token)
  ELSE IF word = "while"
    THEN CallOn(f, h, skipWhiteSpace(skipPastKeyword(c, "loop")), token, "CODE")
  ELSE IF word = "loop" THEN CallOn(f, h, skipWhiteSpace(c), token, "CODE")
  ELSE Loop(h, c, f.mode, f.parent, NULL)

\* what follows "<word>:" and skipWhiteSpace(); token is the identifier
IdentifierBranch(f, h, c, token, word) ==
  IF word = "declare" THEN CallOn(f, h, c, token, "DECLARATIONS")
  ELSE IF word = "begin" THEN CallOn(f, h, c, token, "CODE")
  ELSE IF word = "for" THEN ForLoop(f, adaParseLoopVar(h, c, token), token)
  ELSE IF word = "while"
    THEN CallOn(f, h, skipWhiteSpace(skipPastKeyword(c, "loop")), token, "CODE")
  ELSE IF word = "loop" THEN CallOn(f, h, skipWhiteSpace(c), token, "CODE")
  ELSE Loop(freeAdaToken(h, f.parent, token), c, f.mode, f.parent, NULL)

Identified(f, h, c1, token) ==
  IdentifierBranch(f, h, adaKeywordCmpAny(c1, IdentifierWords), token,
                   FirstWord(c1, IdentifierWords))

\* the last else of case ADA_CODE; i is the length of the word before ':'
Identifier(f, h, c, i) ==
  IF i = 0 THEN Loop(h, skipPast(c, ";"), f.mode, f.parent, NULL)
  ELSE Identified(f, newAdaToken(h, c, NameAt(c, i), HasNameAt(c, i), "IDENTIFIER",
                                 FALSE, f.parent),
                  skipWhiteSpace(movePos(c, i + 1)), Len(h) + 1)

\* "end loop" in code mode, after its skipWhiteSpace()
EndLoop(f, h, c2) ==
  IF adaCmpOk(c2, h[f.parent].name, h[f.parent].hasName)
    THEN Return(h, skipPast(adaCmpCur(c2, h[f.parent].name, h[f.parent].hasName), ";"),
                f.mode, f.parent, f.token)
    ELSE Loop(h, adaCmpCur(c2, h[f.parent].name, h[f.parent].hasName),
              f.mode, f.parent, f.token)

\* "end" in code mode, after its skipWhiteSpace()
EndCode(f, h, c1) ==
  IF adaCmpOk(c1, h[f.parent].name, h[f.parent].hasName)
    THEN Return(h, skipPast(adaCmpCur(c1, h[f.parent].name, h[f.parent].hasName), ";"),
                f.mode, f.parent, f.token)
  ELSE IF adaKeywordCmpOk(c1, "loop")
    THEN EndLoop(f, h, skipWhiteSpace(adaKeywordCmpCur(c1, "loop")))
  ELSE Loop(h, skipPast(adaKeywordCmpCur(c1, "loop"), ";"), f.mode, f.parent, f.token)

\* "accept": adaParseSubprogram(parent, ADA_KIND_ENTRY), its result q unused
Accept(f, q) ==
  IF q.descend # "NONE"
    THEN Call(q.h, q.c, f.mode, f.parent, f.token, q.descend, q.token, "void")
    ELSE Loop(q.h, q.c, f.mode, f.parent, f.token)

\* "<<" in code mode, after movePos(strlen("<<")); i is the label's length
Label(f, h, c1, i) ==
  IF c1.pos + i < lineLen(c1)
    THEN Loop(newAdaToken(h, c1, NameAt(c1, i), HasNameAt(c1, i), "LABEL", FALSE,
                          f.parent),
              skipPast(c1, ">>"), f.mode, f.parent, NULL)
    ELSE Loop(h, c1, f.mode, f.parent, f.token)

StatementWords == <<"select", "or", "else", "if", "elsif", "case", "when">>

\* the statements of code mode that make no token
StatementBranch(f, h, c, word) ==
  IF word \in {"select", "or", "else"}
    THEN Loop(h, skipWhiteSpace(c), f.mode, f.parent, f.token)
  ELSE IF word \in {"if", "elsif"}
    THEN Loop(h, skipPastKeyword(c, "then"), f.mode, f.parent, f.token)
  ELSE IF word = "case" THEN Loop(h, skipPastKeyword(c, "is"), f.mode, f.parent, f.token)
  ELSE IF word = "when" THEN Loop(h, skipPast(c, "=>"), f.mode, f.parent, f.token)
  ELSE Identifier(f, h, c, IdentLen(c, 1))

CodeWords ==
  <<"declare", "begin", "exception", "end", "accept", "for", "while", "loop">>

\* case ADA_CODE
CodeBranch(f, h, c, word) ==
  IF word = "declare"
    THEN CallOn(f, Anonymous(h, c, "", FALSE, f.parent, TRUE), c, Len(h) + 1,
                "DECLARATIONS")
  ELSE IF word = "begin"
    THEN CallOn(f, Anonymous(h, c, "", FALSE, f.parent, TRUE), c, Len(h) + 1, "CODE")
  ELSE IF word = "exception" THEN Loop(h, c, "EXCEPTIONS", f.parent, f.token)
  ELSE IF word = "end" THEN EndCode(f, h, skipWhiteSpace(c))
  ELSE IF word = "accept" THEN Accept(f, adaParseSubprogram(h, c, f.parent, "ENTRY"))
  ELSE IF word = "for"
    THEN ForLoop(f, adaParseLoopVar(Anonymous(h, c, "loop", TRUE, f.parent, FALSE),
                                    c, Len(h) + 1),
                 Len(h) + 1)
  ELSE IF word = "while"
    THEN CallOn(f, Anonymous(h, c, "loop", TRUE, f.parent, FALSE),
                skipWhiteSpace(skipPastKeyword(c, "loop")), Len(h) + 1, "CODE")
  ELSE IF word = "loop"
    THEN CallOn(f, Anonymous(h, c, "loop", TRUE, f.parent, TRUE), skipWhiteSpace(c),
                Len(h) + 1, "CODE")
  ELSE IF ~c.null /\ strncasecmp0(Line(c), c.pos, "<<")
    THEN Label(f, h, movePos(c, 2), LabelLen(movePos(c, 2), 1))
  ELSE StatementBranch(f, h, adaKeywordCmpAny(c, StatementWords),
                       FirstWord(c, StatementWords))

CodeIter(f, h, c) ==
  CodeBranch(f, h, adaKeywordCmpAny(c, CodeWords), FirstWord(c, CodeWords))

\* "when" in exceptions mode: q is the result of adaParseVariables
Handler(f, q) == Loop(q.h, q.c, f.mode, f.parent, q.token)

ExceptionsWords == <<"pragma", "when", "end">>

\* case ADA_EXCEPTIONS
ExceptionsBranch(f, h, c, word) ==
  IF word = "pragma" THEN Loop(h, skipPast(c, ";"), f.mode, f.parent, f.token)
  ELSE IF word = "when"
    THEN Handler(f, adaParseVariables(h, skipWhiteSpace(c), f.parent,
                                      "AUTOMATIC_VARIABLE"))
  ELSE IF word = "end" THEN EndPlain(f, h, skipWhiteSpace(c), f.token)
  ELSE Loop(h, skipPast(c, ";"), f.mode, f.parent, f.token)

ExceptionsIter(f, h, c) ==
  ExceptionsBranch(f, h, adaKeywordCmpAny(c, ExceptionsWords),
                   FirstWord(c, ExceptionsWords))

-----------------------------------------------------------------------------
(* storeAdaTags: the visit of one token, up to the loop over its children *)

ScopeLimitedKinds ==
  {"RECORD_COMPONENT", "ENUM_LITERAL", "FORMAL", "LABEL", "IDENTIFIER",
   "AUTOMATIC_VARIABLE", "ANONYMOUS"}

\* a variant of SpecShift that applies makeSpec to the kind it has made
SpecShiftTwice(h, t) ==
  IF h[t].isSpec = TRUE THEN [h EXCEPT ![t].kind = makeSpec(makeSpec(h[t].kind))] ELSE h

\* if(token->isSpec == TRUE) makeSpec(&token->kind);
SpecShift(h, t) ==
  IF h[t].isSpec = TRUE THEN [h EXCEPT ![t].kind = makeSpec(h[t].kind)] ELSE h

\* a variant of ScopeOf without the case of a separate parent
ScopeOfRealKinds(h, t) ==
  IF h[t].parent # NULL /\ h[h[t].parent].kind \in RealKinds
    THEN [has |-> TRUE, kind |-> AdaKinds[h[h[t].parent].kind].name,
          name |-> h[h[t].parent].name, hasName |-> h[h[t].parent].hasName]
    ELSE [has |-> FALSE, kind |-> "", name |-> "", hasName |-> FALSE]

\* tag.extensionFields.scope, from the parent as it is when the token is visited
ScopeOf(h, t) ==
  LET p == h[t].parent
  IN  IF p # NULL /\ h[p].kind \in RealKinds
        THEN [has |-> TRUE, kind |-> AdaKinds[h[p].kind].name,
              name |-> h[p].name, hasName |-> h[p].hasName]
      ELSE IF p # NULL /\ h[p].kind = ADA_KIND_SEPARATE
        THEN [has |-> TRUE, kind |-> "separate",
              name |-> h[p].name, hasName |-> h[p].hasName]
      ELSE [has |-> FALSE, kind |-> "", name |-> "", hasName |-> FALSE]

\* an anonymous declare block is given the name "declare" while it is stored
NameDeclare(h, t) ==
  IF h[t].kind = "ANONYMOUS" /\ ~h[t].hasName
    THEN [h EXCEPT ![t].name = "declare", ![t].hasName = TRUE]
    ELSE h

\* a variant of MakesTag that makes anonymous tags with or without children
MakesTagAnyBlock(h, t, o) ==
  /\ h[t].kind \in RealKinds
  /\ h[t].kind \in o.enabled
  /\ h[t].hasName
  /\ o.fileScope = TRUE \/ (o.fileScope = FALSE /\ h[t].isFileScope = FALSE)

\* a variant of MakesTag that does not read Option.include.fileScope
MakesTagAnyScope(h, t, o) ==
  /\ h[t].kind \in RealKinds
  /\ h[t].kind \in o.enabled
  /\ h[t].hasName
  /\ (h[t].kind = "ANONYMOUS" /\ h[t].head # NULL) \/ h[t].kind # "ANONYMOUS"

\* the condition under which makeTagEntry is called for the token
MakesTag(h, t, o) ==
  /\ h[t].kind \in RealKinds
  /\ h[t].kind \in o.enabled
  /\ h[t].hasName
  /\ (h[t].kind = "ANONYMOUS" /\ h[t].head # NULL) \/ h[t].kind # "ANONYMOUS"
  /\ o.fileScope = TRUE \/ (o.fileScope = FALSE /\ h[t].isFileScope = FALSE)

\* a variant of Qualifies that does not read Option.include.qualifiedTags
QualifiesAlways(h, t, o) == h[t].kind \notin ScopeLimitedKinds

\* the condition under which the token takes part in qualified naming
Qualifies(h, t, o) ==
  o.qualifiedTags = TRUE /\ h[t].kind \notin ScopeLimitedKinds

\* the tagEntryInfo as makeTagEntry sees it
TagOf(h, t, name, scope) ==
  [name |-> name, kind |-> AdaKinds[h[t].kind].name,
   lineNumber |-> h[t].lineNumber, filePosition |-> h[t].filePosition,
   scope |-> scope, isFileScope |-> h[t].isFileScope, token |-> t]

\* storeAdaTags(t, parentScope) up to "now make the child tags": the heap,
\* the tags made and currentScope
StoreVisit(h, t, parentScope, hasParentScope, o) ==
  LET h1 == SpecShift(h, t)
      scope == ScopeOf(h1, t)
      h2 == NameDeclare(h1, t)
      made == MakesTag(h2, t, o)
      qual == made /\ Qualifies(h2, t, o)
      dotted == parentScope \o "." \o h2[t].name
  IN  [h |-> h2,
       tags |-> IF ~made THEN << >>
                ELSE IF qual /\ hasParentScope
                  THEN <<TagOf(h2, t, h2[t].name, scope), TagOf(h2, t, dotted, scope)>>
                ELSE <<TagOf(h2, t, h2[t].name, scope)>>,
       currentScope |-> IF ~qual THEN "" ELSE IF hasParentScope THEN dotted
                        ELSE h2[t].name,
       hasCurrentScope |-> qual]

\* after the children: the name "declare" is taken back
ClearDeclare(h, t) ==
  IF h[t].kind = "ANONYMOUS" /\ strncasecmp0(h[t].name, 0, "declare")
    THEN [h EXCEPT ![t].name = "", ![t].hasName = FALSE]
    ELSE h

-----------------------------------------------------------------------------
(* The inputs: source files and option settings.  A file is a shell around *)
(* a body of at most MaxDecls lines drawn from the lines of that shell; a  *)
(* variable declaration lists up to MaxNames names.  FixedFiles are whole  *)
(* programs that reach the generic, code and exceptions modes.             *)

MaxDecls == 2
MaxNames == 3

NamePool == <<"X", "Y", "Z", "W", "V">>

RECURSIVE NameList(_)
NameList(k) == IF k = 1 THEN NamePool[1] ELSE NameList(k - 1) \o ", " \o NamePool[k]

VarLines ==
  {NameList(k) \o " : Integer;" : k \in 1..MaxNames}
    \cup {"C : constant Integer := 5;", "C : constant:= 5;", "E : exception;",
          "A : access procedure (B : Integer);", "N;"}

RootLines ==
  {"procedure Q;", "procedure Q renames R;", "package Q is new R;",
   "procedure Q (A : Integer) is separate;", "task type T (D : Integer) is separate;",
   "separate (Parent)", "package Q is end Q;"}

SpecLines ==
  {"X : Integer;", "private Y : Integer;", "procedure Q;", "procedure Q is new R;",
   "function F (A, B : in Integer) return Integer;", "package Q renames R;",
   "task T;"}

BlockLines ==
  {"X : Integer;", "C : constant Integer := 5;", "procedure Q is separate;", "N;"}

Shells == {"root", "spec", "body", "block"}

ShellLines(sh) ==
  CASE sh = "root"  -> RootLines
    [] sh = "spec"  -> SpecLines
    [] sh = "body"  -> VarLines
    [] sh = "block" -> BlockLines

RECURSIVE Bodies(_, _)
Bodies(lines, n) ==
  IF n = 0 THEN {<< >>}
  ELSE Bodies(lines, n - 1)
         \cup {Append(x, d) : x \in {y \in Bodies(lines, n - 1) : Len(y) = n - 1},
                              d \in lines}

Shell(sh, body) ==
  CASE sh = "root"  -> body
    [] sh = "spec"  -> <<"package P is">> \o body \o <<"end P;">>
    [] sh = "body"  -> <<"package body P is">> \o body \o <<"end P;">>
    [] sh = "block" -> <<"procedure M is", "begin", "declare">> \o body
                         \o <<"begin", "null;", "end;", "end M;">>

ShellFiles ==
  UNION {{Shell(sh, b) : b \in Bodies(ShellLines(sh), MaxDecls)} : sh \in Shells}

FixedFiles ==
  { <<"package Outer is package Inner is end Inner; end Outer;">>,
    <<"package P is X:Integer; private Y:Integer; end P;">>,
    <<"with Ada.Text_IO; use Ada.Text_IO;", "-- a comment", "",
      "generic", "type T is private;", "with function F (A : T) return T;",
      "package G is", "procedure Q (A : T);", "end G;">>,
    <<"procedure M is", "begin", "L1: for I in 1 .. 2 loop", "null;",
      "end loop L1;", "<<Lab>> null;", "begin", "null;", "end;",
      "begin", "for J in 1 .. 2 loop", "null;", "end loop;", "end;",
      "exception", "when E : others => null;", "end M;">>,
    <<"separate (Parent)", "procedure Q is", "X : Integer;", "begin",
      "declare", "begin", "null;", "end;", "end Q;", "package R is", "end R;">>,
    <<"package body P is", "task body T is", "begin", "accept E (A : Integer) do",
      "null;", "end E;", "end T;", "end P;">>,
    <<"with A;procedure Q;", "procedure R;">>,
    <<"package body P is", "pragma Foo;", "use A;", "procedure M is", "begin",
      "pragma Bar;", "null;", "exception", "pragma Baz;", "when others => null;",
      "end M;", "end P;">>,
    <<"package Q">>,
    <<"procedure Q">>,
    <<"package P is", "procedure Q (A : Integer)">>,
    <<"package P is", "type T">>,
    <<"package body P is", "N;procedure Q;", "procedure R;", "end P;">>,
    <<"procedure M is", "begin", "foo bar", "baz;", "L: declare", "X : Integer;",
      "begin", "null;", "end L;", "exception", "foo;", "when others => null;",
      "end M;">>,
    <<"generic", "foo;", "type T is private;", "package G is", "end G;">>,
    <<"package A is", "end A;", "generic", "type T is private;",
      "procedure Q (X : T);">>,
    <<"package P is", "generic", "type T is private;", "procedure Q (X : T);",
      "Y : Integer;", "end P;", "procedure R;">>,
    <<"procedure M is", "begin", "declare", "begin", "if B then", "null;",
      "end if;", "K: declare", "X : Integer;", "begin", "null;", "end K;",
      "end;", "end M;">>,
    <<"procedure M is", "begin", "case B is", "when others => null;", "end case;",
      "L: loop", "null;", "end loop L;", "end Other;", "end M;", "procedure R;">>,
    <<"generic", "type T is private;", "package G is", "end G;", "package P is",
      "X : Integer;", "private", "Y : Integer;", "end P;">>,
    <<"package body P is", "generic", "type T is private;", "procedure Q (X : T);",
      "procedure R (A : Integer) is separate;", "end P;">>,
    <<"package body P is", "X,", "Y,", "Z : Integer;", "end P;">>,
    <<"package body P is", "X,", "-- note", "Y : Integer;", "end P;">>,
    <<"package body P is", "X,", "", "Y : Integer;", "end P;">>,
    <<"package P is", "type Color is (Red, Green, Blue);",
      "type R (D : Integer) is record", "X, Y : Integer;", "W : Integer;",
      "case D is", "when 1 => Z : Integer;", "when others => null;", "end case;",
      "end record;", "type Fwd;", "subtype S is Integer;", "subtype U;",
      "V : Integer;", "end P;">>,
    <<"procedure M is", "begin", "X := 5;", "Y:= 6;", "Foo: bar;",
      "W1: while B loop", "Z := 1;", "end loop W1;", "B1: begin", "Bar: baz;",
      "end B1;", "D1: declare", "V : Integer;", "begin", "null;", "end D1;",
      "end M;">>,
    <<"procedure M is", "begin", "null;", "exception", "when">>,
    <<"package body P is", "X : Integer">> }

DefaultEnabled == {k \in RealKinds : AdaKinds[k].enabled}

Policies ==
  { [fileScope |-> TRUE,  qualifiedTags |-> FALSE, enabled |-> DefaultEnabled],
    [fileScope |-> TRUE,  qualifiedTags |-> TRUE,  enabled |-> RealKinds],
    [fileScope |-> FALSE, qualifiedTags |-> TRUE,  enabled |-> DefaultEnabled],
    [fileScope |-> FALSE, qualifiedTags |-> FALSE, enabled |-> RealKinds],
    [fileScope |-> TRUE,  qualifiedTags |-> FALSE,
     enabled |-> DefaultEnabled \cup {"ANONYMOUS"}] }

-----------------------------------------------------------------------------
(* The state machine *)

Root == 1

\* the globals as findAdaTags initializes them
InitCur ==
  [n |-> 0, null |-> TRUE, pos |-> 0, exc |-> "NONE", eof |-> 0,
   mln |-> 0, mfp |-> 0, jmp |-> FALSE, nullCopy |-> FALSE]

\* an adaTokenInfo on the stack of adaParse: only its children list is set
GenericParamsRoot == [RawToken EXCEPT !.kind = "genericParamsRoot"]

NewFrame(mode, parent, gen, ret) ==
  [mode |-> mode, parent |-> parent, token |-> NULL, gen |-> gen, ret |-> ret]

StoreFrame(t, head, currentScope, hasCurrentScope) ==
  [token |-> t, tmp |-> head, currentScope |-> currentScope,
   hasCurrentScope |-> hasCurrentScope]

\* "store tags" of findAdaTags: tmp = root.children.head
EnterStore(h) ==
  /\ pc' = "store"
  /\ estack' = <<StoreFrame(Root, h[Root].head, "", FALSE)>>

\* freeAdaTokenList(&genericParamsRoot.children) and the end of the
\* activation that owns genericParamsRoot
Leave(h, gen) == [freeAdaTokenList(h, gen) EXCEPT ![gen].live = FALSE]

\* return token; of the innermost adaParse, h1 being the heap it leaves,
\* and what its caller does next
DoReturn(h1, c, stk) ==
  IF stk[Len(stk)].ret = "top"
    THEN IF c.exc # "EOF" /\ stk[Len(stk)].token # NULL
           THEN /\ heap' = Append(h1, GenericParamsRoot)
                /\ stack' = <<NewFrame("ROOT", Root, Len(h1) + 1, "top")>>
                /\ cur' = c
                /\ UNCHANGED <<pc, estack>>
           ELSE /\ heap' = h1
                /\ stack' = << >>
                /\ cur' = c
                /\ EnterStore(h1)
    ELSE LET caller == stk[Len(stk) - 1]
             p == IF stk[Len(stk)].ret = "post"
                    THEN PostIter(caller.mode, h1, caller.token, caller.gen)
                    ELSE [h |-> h1, mode |-> caller.mode]
         IN  /\ heap' = p.h
             /\ stack' = [SubSeq(stk, 1, Len(stk) - 1)
                            EXCEPT ![Len(stk) - 1].mode = p.mode]
             /\ cur' = c
             /\ UNCHANGED <<pc, estack>>

\* the effect of one iteration of the innermost adaParse with outcome r
Apply(r) ==
  LET n  == Len(stack)
      s1 == [stack EXCEPT ![n] = [@ EXCEPT !.mode = r.mode, !.parent = r.parent,
                                           !.token = r.token]]
  IN  IF r.c.jmp
        THEN \* longjmp(eofError, exception): back in findAdaTags, exception is EOF
             /\ heap' = r.h
             /\ cur' = [r.c EXCEPT !.jmp = FALSE]
             /\ stack' = << >>
             /\ EnterStore(r.h)
      ELSE IF r.act = "loop"
        THEN /\ heap' = r.h /\ cur' = r.c /\ stack' = s1
             /\ UNCHANGED <<pc, estack>>
      ELSE IF r.act = "call"
        THEN /\ heap' = Append(r.h, GenericParamsRoot)
             /\ cur' = r.c
             /\ stack' = Append(s1, NewFrame(r.cmode, r.cparent, Len(r.h) + 1, r.cret))
             /\ UNCHANGED <<pc, estack>>
      ELSE DoReturn(Leave(r.h, stack[n].gen), r.c, s1)

Top == stack[Len(stack)]

\* skipWhiteSpace() at the head of the while loop of adaParse
Pre == skipWhiteSpace(cur)

AtClause(c) ==
  \/ isAdaComment(Line(c), c.pos, lineLen(c))
  \/ adaKeywordCmpOk(c, "pragma") \/ adaKeywordCmpOk(c, "with")
  \/ adaKeywordCmpOk(c, "use")

\* findAdaTags up to the first adaParse(ADA_ROOT, &root)
FindStart ==
  /\ pc = "start"
  /\ LET c1 == readNewLine(InitCur)
     IN  IF c1.exc = "EOF"
           THEN /\ cur' = c1
                /\ heap' = freeAdaTokenList(heap, Root)
                /\ pc' = "done"
                /\ UNCHANGED <<stack, estack>>
           ELSE /\ cur' = c1
                /\ heap' = Append(heap, GenericParamsRoot)
                /\ stack' = <<NewFrame("ROOT", Root, Len(heap) + 1, "top")>>
                /\ pc' = "parse"
                /\ UNCHANGED estack
  /\ UNCHANGED <<file, opt, tags>>

\* the loop of adaParse ends at end of input: return token
ParseExit ==
  /\ pc = "parse"
  /\ Pre.exc = "EOF"
  /\ Apply(Return(heap, Pre, Top.mode, Top.parent, Top.token))
  /\ UNCHANGED <<file, opt, tags>>

\* a comment, or a pragma, with or use clause: skipped in every mode
ParseClause ==
  /\ pc = "parse"
  /\ Pre.exc # "EOF"
  /\ AtClause(Pre)
  /\ Apply(Loop(heap,
                IF isAdaComment(Line(Pre), Pre.pos, lineLen(Pre)) THEN readNewLine(Pre)
                ELSE skipPast(adaKeywordCmpCur(adaKeywordCmpCur(
                                adaKeywordCmpCur(Pre, "pragma"), "with"), "use"), ";"),
                Top.mode, Top.parent, Top.token))
  /\ UNCHANGED <<file, opt, tags>>

ParseRoot ==
  /\ pc = "parse" /\ Pre.exc # "EOF" /\ ~AtClause(Pre)
  /\ Top.mode = "ROOT"
  /\ Apply(RootIter(Top, heap, Pre))
  /\ UNCHANGED <<file, opt, tags>>

ParseGeneric ==
  /\ pc = "parse" /\ Pre.exc # "EOF" /\ ~AtClause(Pre)
  /\ Top.mode = "GENERIC"
  /\ Apply(GenericIter(Top, heap, Pre))
  /\ UNCHANGED <<file, opt, tags>>

ParseDeclarations ==
  /\ pc = "parse" /\ Pre.exc # "EOF" /\ ~AtClause(Pre)
  /\ Top.mode = "DECLARATIONS"
  /\ Apply(DeclarationsIter(Top, heap, Pre))
  /\ UNCHANGED <<file, opt, tags>>

ParseCode ==
  /\ pc = "parse" /\ Pre.exc # "EOF" /\ ~AtClause(Pre)
  /\ Top.mode = "CODE"
  /\ Apply(CodeIter(Top, heap, Pre))
  /\ UNCHANGED <<file, opt, tags>>

ParseExceptions ==
  /\ pc = "parse" /\ Pre.exc # "EOF" /\ ~AtClause(Pre)
  /\ Top.mode = "EXCEPTIONS"
  /\ Apply(ExceptionsIter(Top, heap, Pre))
  /\ UNCHANGED <<file, opt, tags>>

ETop == estack[Len(estack)]

\* storeAdaTags(tmp, currentScope) is called: the visit of tmp
StoreCall ==
  /\ pc = "store"
  /\ ETop.tmp # NULL
  /\ LET v == StoreVisit(heap, ETop.tmp, ETop.currentScope, ETop.hasCurrentScope, opt)
     IN  /\ heap' = v.h
         /\ tags' = tags \o v.tags
         /\ estack' = Append(estack, StoreFrame(ETop.tmp, v.h[ETop.tmp].head,
                                                v.currentScope, v.hasCurrentScope))
  /\ UNCHANGED <<file, opt, pc, cur, stack>>

\* storeAdaTags returns; its caller moves on: tmp = tmp->next
StoreReturn ==
  /\ pc = "store"
  /\ Len(estack) > 1
  /\ ETop.tmp = NULL
  /\ heap' = ClearDeclare(heap, ETop.token)
  /\ estack' = [SubSeq(estack, 1, Len(estack) - 1)
                  EXCEPT ![Len(estack) - 1].tmp = heap[ETop.token].next]
  /\ UNCHANGED <<file, opt, pc, cur, stack, tags>>

\* out: freeAdaTokenList(&root.children)
FindOut ==
  /\ pc = "store"
  /\ Len(estack) = 1
  /\ ETop.tmp = NULL
  /\ heap' = freeAdaTokenList(heap, Root)
  /\ estack' = << >>
  /\ pc' = "done"
  /\ UNCHANGED <<file, opt, cur, stack, tags>>

Init ==
  /\ file \in ShellFiles \cup FixedFiles
  /\ opt \in Policies
  /\ pc = "start"
  /\ cur = InitCur
  /\ heap = <<RawToken>>
  /\ stack = << >>
  /\ estack = << >>
  /\ tags = << >>

Next ==
  \/ FindStart
  \/ ParseExit
  \/ ParseClause
  \/ ParseRoot
  \/ ParseGeneric
  \/ ParseDeclarations
  \/ ParseCode
  \/ ParseExceptions
  \/ StoreCall
  \/ StoreReturn
  \/ FindOut

Spec == Init /\ [][Next]_vars

\* findAdaTags runs until it has ended, no step of it waits for anything:
\* weak fairness of its first step and of all its steps, the latter
\* written out with pc # "done" as the states in which a step is enabled
FairSpec ==
  /\ Spec
  /\ WF_vars(FindStart)
  /\ ([]<>(pc = "done") \/ []<><<Next>>_vars)

-----------------------------------------------------------------------------
(* Properties.  Tokens are the indices of heap; a token newAdaToken made   *)
(* is any but the root of findAdaTags and the genericParamsRoot of an      *)
(* adaParse activation.                                                    *)

Tokens == 1..Len(heap)

Made(t) == t # Root /\ heap[t].kind # "genericParamsRoot"

TagsFor(t) == {i \in 1..Len(tags) : tags[i].token = t}

NoScope == [has |-> FALSE, kind |-> "", name |-> "", hasName |-> FALSE]

\* every tag is made and the tree is still whole: the state before
\* freeAdaTokenList(&root.children) of findAdaTags
Stored == pc = "store" /\ Len(estack) = 1 /\ estack[1].tmp = NULL

\* the token was made by the outermost adaParse: its parent was the root or
\* the token of a separate clause
TopLevel(t) ==
  Made(t) /\ heap[t].born.has
          /\ heap[t].born.kind \in {ADA_KIND_UNDEFINED, ADA_KIND_SEPARATE}

UnitKinds ==
  {"PACKAGE", "PACKAGE_SPEC", "TASK", "TASK_SPEC", "PROTECTED", "PROTECTED_SPEC",
   "SUBPROGRAM", "SUBPROGRAM_SPEC"}

SpecKindNames == {"packspec", "taskspec", "protectspec", "subprogspec"}

\* C1: a package, task, protected or subprogram declaration without the
\* keyword body that reaches its ";" without a descent into a declarative
\* part (the renames and is new forms included) has isSpec set, and every
\* tag made for it carries the -spec kind.
C1_SpecFormsMarked ==
  \A t \in Tokens :
    ( /\ heap[t].kind \in UnitKinds
      /\ ~heap[t].body
      /\ heap[t].ending \in {"semicolon", "renames", "new"} )
    => /\ heap[t].isSpec = TRUE
       /\ \A i \in TagsFor(t) : tags[i].kind \in SpecKindNames

\* C2: a declaration whose "is" is followed by "separate" leaves no node:
\* its token is freed with every child it had, no live token links to it,
\* no adaParse activation holds it as its token, and no tag is made for it
\* or for a child of it.
C2_SeparateLeavesNoNode ==
  \A t \in Tokens :
    heap[t].ending = "separate"
    => /\ ~heap[t].live
       /\ \A u \in Tokens :
            /\ heap[u].parent = t => ~heap[u].live
            /\ heap[u].live => /\ heap[u].head # t /\ heap[u].tail # t
                               /\ heap[u].next # t /\ heap[u].prev # t
       /\ \A k \in 1..Len(stack) : stack[k].token # t /\ stack[k].parent # t
       /\ \A i \in 1..Len(tags) :
            tags[i].token # t /\ heap[tags[i].token].parent # t

\* a declaration with parameters or discriminants was left by "is separate"
C2_Witness ==
  \E t \in Tokens :
    /\ heap[t].ending = "separate"
    /\ \E u \in Tokens : heap[u].parent = t /\ heap[u].kind = "AUTOMATIC_VARIABLE"
    /\ pc = "store"

\* the token of the last separate clause before token u, the root if none
RECURSIVE LastSeparate(_)
LastSeparate(u) ==
  IF u <= 1 THEN Root
  ELSE IF heap[u - 1].kind = ADA_KIND_SEPARATE THEN u - 1
  ELSE LastSeparate(u - 1)

IsBlock(t) == heap[t].kind = "ANONYMOUS" /\ heap[t].given = ""

\* the block holds one token, a variable
OneVariable(t) == heap[t].numTokens = 1 /\ heap[heap[t].head].kind = "VARIABLE"

PrivateStep ==
  /\ pc = "parse" /\ Pre.exc # "EOF" /\ ~AtClause(Pre)
  /\ Top.mode = "DECLARATIONS"
  /\ FirstWord(Pre, DeclarationsWords) = "private"

PrivateFile == <<"package P is X:Integer; private Y:Integer; end P;">>

NestedFile == <<"package Outer is package Inner is end Inner; end Outer;">>

\* the names, kinds and scopes of the tags, in the order they are made
TagNames == [i \in 1..Len(tags) |-> <<tags[i].name, tags[i].kind, tags[i].scope.name>>]

\* C7 (as amended): with qualified tags included,
\* package Outer is package Inner is end Inner; end Outer; makes three
\* tags: Outer once, then Inner and Outer.Inner, all package specifications,
\* the two of Inner at the same position; without qualified tags it makes
\* the tags Outer and Inner only.
C7_ThreeTags ==
  (pc = "done" /\ file = NestedFile)
  => IF opt.qualifiedTags
       THEN /\ TagNames = << <<"Outer", "packspec", "">>,
                             <<"Inner", "packspec", "Outer">>,
                             <<"Outer.Inner", "packspec", "Outer">> >>
            /\ tags[2].lineNumber = tags[3].lineNumber
            /\ tags[2].filePosition = tags[3].filePosition
            /\ tags[2].token = tags[3].token
       ELSE TagNames = << <<"Outer", "packspec", "">>,
                          <<"Inner", "packspec", "Outer">> >>

\* the nested packages were stored with qualified tags included
C7_Witness ==
  /\ pc = "done" /\ file = NestedFile /\ opt.qualifiedTags
  /\ Len(tags) = 3 /\ tags[3].name = "Outer.Inner"

\* C7 (as stated): with qualified tags included the nested packages make
\* four tags, Outer once and Inner and Outer.Inner; without, the
\* plain names only.
C7_FourTags ==
  (pc = "done" /\ file = NestedFile)
  => IF opt.qualifiedTags
       THEN /\ Len(tags) = 4
            /\ Cardinality({i \in 1..Len(tags) : tags[i].name = "Outer"}) = 1
            /\ \E i, j \in 1..Len(tags) :
                 /\ tags[i].name = "Inner" /\ tags[j].name = "Outer.Inner"
                 /\ tags[i].filePosition = tags[j].filePosition
            /\ \A i \in 1..Len(tags) : tags[i].kind = "packspec"
       ELSE \A i \in 1..Len(tags) : tags[i].name \in {"Outer", "Inner"}

\* the name a token has while storeAdaTags visits its children
StoreName(p) == IF IsBlock(p) THEN "declare" ELSE heap[p].given

\* the token has an entry in AdaKinds under its name: it is made a tag
\* under some setting of the kinds
Emittable(p) == p # NULL /\ heap[p].kind \in RealKinds

\* the nearest ancestor of t that was made a tag or is emittable, NULL if none
RECURSIVE NearestEmitted(_)
NearestEmitted(t) ==
  LET p == heap[t].parent
  IN  IF p = NULL THEN NULL
      ELSE IF TagsFor(p) # {} \/ Emittable(p) THEN p
      ELSE NearestEmitted(p)

\* C8 (as amended): the scope of a tag is taken from the direct parent of
\* its token, a tag being made for that parent or not: no scope under the
\* root, ("separate", <Name>) under the token of a separate clause, and
\* otherwise the kind name of the parent after its spec shift with the name
\* of the parent, "declare" for an anonymous block.
C8_ScopeFromParent ==
  \A i \in 1..Len(tags) :
    LET p == heap[tags[i].token].parent
    IN  tags[i].scope =
          IF p = NULL \/ heap[p].kind = ADA_KIND_UNDEFINED THEN NoScope
          ELSE [has |-> TRUE,
                kind |-> IF heap[p].kind = ADA_KIND_SEPARATE THEN "separate"
                         ELSE AdaKinds[heap[p].kind].name,
                name |-> StoreName(p), hasName |-> TRUE]

\* a tag with a scope whose token has a parent no tag was made for
C8_Witness ==
  /\ Stored
  /\ \E i \in 1..Len(tags) :
       /\ tags[i].scope.has
       /\ heap[tags[i].token].parent # Root
       /\ TagsFor(heap[tags[i].token].parent) = {}

\* C8 (as stated): for every tag whose token is not a child of the root,
\* the token has a nearest ancestor that is emitted or emittable, the name
\* of the scope is the name of that ancestor and the kind of the scope is
\* the kind name of that ancestor after its spec shift.
C8_ScopeFromEmittedAncestor ==
  \A i \in 1..Len(tags) :
    heap[tags[i].token].parent # Root
    => LET a == NearestEmitted(tags[i].token)
       IN  /\ a # NULL
           /\ tags[i].scope.name = StoreName(a)
           /\ tags[i].scope.kind = AdaKinds[heap[a].kind].name

\* the step of adaParse that calls adaParseVariables(parent, ADA_KIND_VARIABLE)
VariablesStep ==
  /\ pc = "parse" /\ Pre.exc # "EOF" /\ ~AtClause(Pre)
  /\ Top.mode = "DECLARATIONS"
  /\ FirstWord(Pre, DeclarationsWords) = ""

\* the text of the declaration the scanner is at: the rest of its line
Declaration == SubSeq(Line(Pre), Pre.pos + 1, lineLen(Pre))

\* the index of the first ":" of s from i on that is outside parentheses,
\* -1 when ";", ":=" or the end of s comes first
RECURSIVE TopColon(_, _, _)
TopColon(s, i, depth) ==
  IF i >= Len(s) \/ CharAt(s, i) = ";" THEN -1
  ELSE IF CharAt(s, i) = "(" THEN TopColon(s, i + 1, depth + 1)
  ELSE IF CharAt(s, i) = ")" THEN TopColon(s, i + 1, depth - 1)
  ELSE IF depth = 0 /\ CharAt(s, i) = ":"
    THEN IF CharAt(s, i + 1) = "=" THEN -1 ELSE i
  ELSE TopColon(s, i + 1, depth)

RECURSIVE SkipBlank(_, _)
SkipBlank(s, i) == IF isspace(CharAt(s, i)) THEN SkipBlank(s, i + 1) ELSE i

IsWordChar(ch) == isalnum(ch) \/ ch = "_"

RECURSIVE WordEnd(_, _)
WordEnd(s, i) == IF IsWordChar(CharAt(s, i)) THEN WordEnd(s, i + 1) ELSE i

\* the bare word of s that starts at or after i, in lower case
RECURSIVE LowerWord(_, _, _)
LowerWord(s, i, e) == IF i >= e THEN "" ELSE tolower(CharAt(s, i)) \o LowerWord(s, i + 1, e)

WordAfter(s, i) == LowerWord(s, SkipBlank(s, i), WordEnd(s, SkipBlank(s, i)))

KindByWord(word) ==
  IF word = "constant" THEN "CONSTANT"
  ELSE IF word = "exception" THEN "EXCEPTION"
  ELSE "VARIABLE"

\* the tokens a step appends to the heap, in the order they are made
NewTokens == [k \in 1..(Len(heap') - Len(heap)) |-> heap'[Len(heap) + k]]

\* C9: when adaParseVariables is called with the kind variable, the first
\* bare word after the top-level ":" of the declaration decides the kind of
\* every token of the declaration: constant, exception, or else variable.
C9_FirstWordDecidesKind ==
  [][(VariablesStep /\ TopColon(Declaration, 0, 0) # -1)
       => \A k \in DOMAIN NewTokens :
            NewTokens[k].kind =
              KindByWord(WordAfter(Declaration, TopColon(Declaration, 0, 0) + 1))]_vars

RECURSIVE SkipGap(_, _, _)
SkipGap(s, i, e) == IF i < e /\ IsNameGap(CharAt(s, i)) THEN SkipGap(s, i + 1, e) ELSE i

RECURSIVE NameEnd(_, _, _)
NameEnd(s, i, e) == IF i < e /\ ~IsNameGap(CharAt(s, i)) THEN NameEnd(s, i + 1, e) ELSE i

\* the names N1, ..., Nk of s[i..e-1], in order
RECURSIVE NamesIn(_, _, _)
NamesIn(s, i, e) ==
  IF SkipGap(s, i, e) >= e THEN << >>
  ELSE <<SubSeq(s, SkipGap(s, i, e) + 1, NameEnd(s, SkipGap(s, i, e), e))>>
         \o NamesIn(s, NameEnd(s, SkipGap(s, i, e), e), e)

\* the names a declaration lists before its top-level ":", none without one
DeclaredNames ==
  IF TopColon(Declaration, 0, 0) = -1 THEN << >>
  ELSE NamesIn(Declaration, 0, TopColon(Declaration, 0, 0))

\* C10: for a declaration N1, ..., Nk : <type-clause> written on one line
\* adaParseVariables appends to the parent exactly k sibling tokens, named N1..Nk in source
\* order, all of one kind and at the line of the declaration, none for a
\* word after the ":"; it makes no token when no top-level ":" comes before
\* the delimiter.
C10_OneTokenPerName ==
  [][(VariablesStep /\ CharAt(Declaration, Len(Declaration) - 1) = ";")
       => /\ Len(NewTokens) = Len(DeclaredNames)
          /\ \A k \in DOMAIN NewTokens :
               /\ NewTokens[k].given = DeclaredNames[k]
               /\ NewTokens[k].parent = Top.parent
               /\ NewTokens[k].kind = NewTokens[1].kind
               /\ NewTokens[k].lineNumber = Pre.n
          /\ \A k \in DOMAIN NewTokens :
               Children(heap', Top.parent)[heap[Top.parent].numTokens + k] = Len(heap) + k]_vars

\* the names under which the enabled kinds are written
EnabledNames == {AdaKinds[k].name : k \in opt.enabled}

\* C11: a tag is made for a token only if the finalized kind of the token
\* is one of the 25 real kinds and enabled, the token has a name and, when
\* the token is file-scoped, file-scoped tags are included; no tag is made
\* for a token of kind separate or undefined.
C11_TagOnlyIfEmittable ==
  /\ Cardinality(RealKinds) = 25
  /\ \A i \in 1..Len(tags) :
       LET t == tags[i].token
       IN  /\ heap[t].kind \in RealKinds
           /\ heap[t].kind \in opt.enabled
           /\ heap[t].kind \notin {ADA_KIND_SEPARATE, ADA_KIND_UNDEFINED}
           /\ tags[i].kind = AdaKinds[heap[t].kind].name
           /\ tags[i].kind \in EnabledNames
           /\ StoreName(t) # "" /\ tags[i].name # ""
           /\ heap[t].isFileScope = tags[i].isFileScope
           /\ tags[i].isFileScope => opt.fileScope

\* with file-scoped tags left out, a named file-scoped token of an enabled
\* kind was passed over and a token that is not file-scoped was made a tag
C11_Witness ==
  /\ Stored /\ ~opt.fileScope
  /\ \E t \in Tokens :
       /\ Made(t) /\ heap[t].live /\ heap[t].isFileScope
       /\ heap[t].kind \in opt.enabled /\ heap[t].given # ""
       /\ TagsFor(t) = {}
  /\ \E u \in Tokens : TagsFor(u) # {}
  /\ \E s \in Tokens : heap[s].kind = ADA_KIND_SEPARATE /\ heap[s].live /\ TagsFor(s) = {}

\* the step of adaParse that meets a pragma, with or use clause
ClauseStep ==
  /\ pc = "parse" /\ Pre.exc # "EOF"
  /\ ~isAdaComment(Line(Pre), Pre.pos, lineLen(Pre))
  /\ FirstWord(Pre, <<"pragma", "with", "use">>) # ""

\* the index of the first ";" of s from i on, -1 if there is none
RECURSIVE SemiAt(_, _)
SemiAt(s, i) ==
  IF i >= Len(s) THEN -1 ELSE IF CharAt(s, i) = ";" THEN i ELSE SemiAt(s, i + 1)

\* the scanner after the step stands right behind the first ";" of the
\* statement that starts at Pre: on the same line, or at the start of a
\* later line (or at the end of input) when the ";" ends its line
BehindSemi ==
  LET k == SemiAt(Line(Pre), Pre.pos)
  IN  k # -1 =>
        IF k + 1 < lineLen(Pre)
          THEN cur'.n = Pre.n /\ cur'.pos = k + 1 /\ ~cur'.null
          ELSE cur'.pos = 0 /\ (cur'.null \/ cur'.n > Pre.n)

\* C12: in every mode a statement that starts with pragma, with or use is
\* skipped up to and including its ";" before a branch of the mode is
\* tried: the step makes no token and no tag and leaves the mode, the
\* parent and the token of the adaParse activation as they were.
C12_ClauseSkipped ==
  [][ClauseStep => /\ heap' = heap /\ tags' = tags /\ stack' = stack /\ pc' = pc
                   /\ BehindSemi]_vars

\* eofCount never passes 1, so longjmp(eofError, exception) is never taken:
\* every call of readNewLine is guarded by exception != EXCEPTION_EOF
EofCountedOnce == cur.eof <= 1 /\ ~cur.jmp /\ cur.eof < EofLimit

BlockKinds == {"PACKAGE", "PACKAGE_SPEC", "TASK", "TASK_SPEC", "PROTECTED", "PROTECTED_SPEC"}

DeclarationKinds ==
  UnitKinds \cup {"ENTRY", "ENTRY_SPEC", "TYPE", "TYPE_SPEC", "SUBTYPE", "SUBTYPE_SPEC"}

\* the token is gone from the tree: freed, linked from no live token, held
\* by no adaParse activation, and without a tag
Removed(t) ==
  /\ ~heap[t].live
  /\ \A u \in Tokens :
       heap[u].live => /\ heap[u].head # t /\ heap[u].tail # t
                       /\ heap[u].next # t /\ heap[u].prev # t
  /\ \A k \in 1..Len(stack) : stack[k].token # t
  /\ TagsFor(t) = {}

\* C14: when the end of input comes while a block, subprogram or type
\* declaration has its name but none of is, renames, do or ";", the token
\* of the declaration is removed from the tree, the routine returns no
\* token and no tag is made for the declaration.
C14_IncompleteRemoved ==
  \A t \in Tokens :
    (heap[t].kind \in DeclarationKinds /\ heap[t].ending = "eof") => Removed(t)

\* the part of C14 that adaParseBlock implements
C14_IncompleteBlockRemoved ==
  \A t \in Tokens :
    (heap[t].kind \in BlockKinds /\ heap[t].ending = "eof") => Removed(t)

\* the outcome of the iteration that the innermost adaParse is about to make
Iteration ==
  IF Pre.exc = "EOF" THEN Return(heap, Pre, Top.mode, Top.parent, Top.token)
  ELSE IF AtClause(Pre)
    THEN Loop(heap,
              IF isAdaComment(Line(Pre), Pre.pos, lineLen(Pre)) THEN readNewLine(Pre)
              ELSE skipPast(adaKeywordCmpCur(adaKeywordCmpCur(
                              adaKeywordCmpCur(Pre, "pragma"), "with"), "use"), ";"),
              Top.mode, Top.parent, Top.token)
  ELSE CASE Top.mode = "ROOT" -> RootIter(Top, heap, Pre)
         [] Top.mode = "GENERIC" -> GenericIter(Top, heap, Pre)
         [] Top.mode = "DECLARATIONS" -> DeclarationsIter(Top, heap, Pre)
         [] Top.mode = "CODE" -> CodeIter(Top, heap, Pre)
         [] Top.mode = "EXCEPTIONS" -> ExceptionsIter(Top, heap, Pre)

\* the scanner at b is further in the input than at a
Ahead(a, b) == b.n > a.n \/ (b.n = a.n /\ b.pos > a.pos)

\* a state in which findAdaTags has a step that changes the state: an
\* iteration of adaParse consumes input or observes the end of input, and at
\* the end of input it returns
CanStep ==
  \/ pc = "start"
  \/ /\ pc = "parse" /\ stack # << >>
     /\ Top.mode \in {"ROOT", "GENERIC", "DECLARATIONS", "CODE", "EXCEPTIONS"}
     /\ IF cur.exc = "EOF" THEN Iteration.act = "return"
        ELSE Ahead(cur, Iteration.c) \/ Iteration.c.exc = "EOF"
  \/ pc = "store" /\ estack # << >>

\* C15: for every input findAdaTags leaves the parse loop, reaches the
\* pass that makes the tags, and ends with the tree freed: until it has
\* ended it always has a step, an iteration of adaParse consumes input or
\* observes the end of input, the counter of ends of input stays below its
\* limit, from a state of the parse the pass over the tree is reached with
\* no adaParse activation left, and the end of findAdaTags is reached with
\* every token freed.
C15_Terminates ==
  /\ [](pc # "done" => CanStep)
  /\ [](cur.eof < EofLimit /\ ~cur.jmp)
  /\ <>(pc = "done")
  /\ (pc = "parse") ~> (pc = "store" /\ stack = << >> /\ cur.exc = "EOF")
  /\ (pc = "store") ~> (pc = "done")
  /\ [](pc = "done" => /\ stack = << >> /\ estack = << >>
                       /\ \A t \in Tokens : Made(t) => ~heap[t].live)

\* findAdaTags has ended after a parse that went through the code and
\* exceptions modes and made tags
C15_Witness ==
  /\ pc = "done" /\ cur.exc = "EOF" /\ Len(tags) > 1
  /\ \E t \in Tokens : heap[t].kind = "IDENTIFIER" \/ heap[t].kind = "ANONYMOUS"

\* the step of adaParse on a statement that no branch of its mode knows:
\* none of the mode's keywords, in declarations mode no "<names> :" and
\* the ";" on the same line, in code mode no "<<" and no "<word>:"
FallbackStep ==
  /\ pc = "parse" /\ Pre.exc # "EOF" /\ ~AtClause(Pre)
  /\ CASE Top.mode = "ROOT" -> FirstWord(Pre, RootWords) = ""
       [] Top.mode = "GENERIC" -> FirstWord(Pre, GenericWords) = ""
       [] Top.mode = "DECLARATIONS" ->
            /\ FirstWord(Pre, DeclarationsWords) = ""
            /\ TopColon(Declaration, 0, 0) = -1
            /\ CharAt(Declaration, Len(Declaration) - 1) = ";"
       [] Top.mode = "CODE" ->
            /\ FirstWord(Pre, CodeWords \o StatementWords) = ""
            /\ ~strncasecmp0(Line(Pre), Pre.pos, "<<")
            /\ IdentLen(Pre, 1) = 0
       [] Top.mode = "EXCEPTIONS" -> FirstWord(Pre, ExceptionsWords) = ""

\* C16: in every mode the step on a statement that no branch knows skips
\* it up to and including its ";" and stays in the loop: the adaParse
\* activation does not return and keeps its mode and its parent, no token
\* is made, and the scanner stands right behind the ";", where the
\* statement that follows is read.
C16_FallbackSkips ==
  [][FallbackStep => /\ pc' = pc /\ Len(stack') = Len(stack)
                     /\ stack'[Len(stack)].mode = Top.mode
                     /\ stack'[Len(stack)].parent = Top.parent
                     /\ heap' = heap
                     /\ BehindSemi]_vars

\* in the heap h every formal that hangs on a real token hangs on a token
\* that was made after it
FormalsForward(h) ==
  \A t \in 1..Len(h) :
    (h[t].kind = "FORMAL" /\ h[t].parent # NULL
       /\ h[h[t].parent].kind # "genericParamsRoot") => h[t].parent > t

\* the n-th adaParse activation is in generic mode before the step and in
\* another mode after it
GenericLeft(n) ==
  /\ Len(stack) >= n /\ Len(stack') >= n
  /\ stack[n].mode = "GENERIC" /\ stack'[n].mode # "GENERIC"

\* C17: the formals collected after "generic" are spliced onto the unit
\* that follows them, never onto a token made before them, and an
\* activation leaves generic mode only in the step that makes that unit or
\* in the return from the unit's body.
C17_FormalsOnFollowingUnit ==
  [][/\ FormalsForward(heap')
     /\ \A n \in 1..Len(stack) :
          GenericLeft(n) =>
            \/ /\ n = Len(stack) /\ n = Len(stack')
               /\ \E k \in DOMAIN NewTokens : NewTokens[k].kind \in RootKinds
            \/ /\ n = Len(stack) - 1 /\ n = Len(stack')
               /\ stack[n].token # NULL
               /\ heap[stack[n].token].kind \in RootKinds]_vars

\* the index in Declaration of the name of a formal subprogram: behind
\* "with" and the word procedure or function
FormalNameAt == SkipBlank(Declaration, WordEnd(Declaration, SkipBlank(Declaration, 4)))

\* the step of adaParse in generic mode on "with procedure <Name>" or
\* "with function <Name>"
FormalSubprogramStep ==
  /\ pc = "parse" /\ Pre.exc # "EOF" /\ Top.mode = "GENERIC"
  /\ ~isAdaComment(Line(Pre), Pre.pos, lineLen(Pre))
  /\ adaKeywordCmpOk(Pre, "with")
  /\ WordAfter(Declaration, 4) \in {"procedure", "function"}

\* C18: in generic mode "with procedure <Name>" or "with function <Name>"
\* makes a token of kind formal named <Name> in the list of
\* genericParamsRoot, and the parameters in its parentheses become children
\* of that token.
C18_FormalSubprogramMade ==
  [][FormalSubprogramStep =>
       \E k \in DOMAIN NewTokens :
         /\ NewTokens[k].kind = "FORMAL"
         /\ NewTokens[k].parent = Top.gen
         /\ NewTokens[k].hasName
         /\ NewTokens[k].name =
              SubSeq(Declaration, FormalNameAt + 1, WordEnd(Declaration, FormalNameAt))
         /\ \A j \in DOMAIN NewTokens :
              NewTokens[j].kind = "AUTOMATIC_VARIABLE" =>
                NewTokens[j].parent = Len(heap) + k]_vars

\* C19: an adaParse activation below the first one is started in
\* declarations or code mode and goes to generic mode from declarations
\* mode (it has no other branch for "generic"); when it leaves generic
\* mode, the governed unit made, it is in declarations mode again.
C19_BackToDeclarations ==
  [][\A n \in 2..Len(stack) : GenericLeft(n) => stack'[n].mode = "DECLARATIONS"]_vars

\* an activation below the first one goes to generic mode from
\* declarations mode
C19_GenericFromDeclarations ==
  [][\A n \in 2..Len(stack) :
       (Len(stack') >= n /\ stack[n].mode # "GENERIC" /\ stack'[n].mode = "GENERIC")
         => stack[n].mode = "DECLARATIONS"]_vars

\* the step of adaParse on "end" in declarations, code or exceptions mode
EndStep ==
  /\ pc = "parse" /\ Pre.exc # "EOF" /\ ~AtClause(Pre)
  /\ \/ Top.mode = "DECLARATIONS" /\ FirstWord(Pre, DeclarationsWords) = "end"
     \/ Top.mode = "CODE" /\ FirstWord(Pre, CodeWords) = "end"
     \/ Top.mode = "EXCEPTIONS" /\ FirstWord(Pre, ExceptionsWords) = "end"

\* the word of Declaration at or after i is the name of the parent; no
\* word stands for the name of a parent that has none
NamesParent(i) ==
  WordAfter(Declaration, i) =
    IF heap[Top.parent].hasName
      THEN LowerWord(heap[Top.parent].name, 0, Len(heap[Top.parent].name))
      ELSE ""

\* the "end" at Pre is followed by the name of the parent, in code mode
\* with "loop" before the name if need be
EndOfParent ==
  \/ NamesParent(3)
  \/ /\ Top.mode = "CODE" /\ WordAfter(Declaration, 3) = "loop"
     /\ NamesParent(WordEnd(Declaration, SkipBlank(Declaration, 3)))

\* C20: in declarations, code and exceptions mode the step on "end"
\* returns from the adaParse activation exactly when the word after "end"
\* (in code mode after "end loop" as well) is the name of the parent, for
\* a parent with a name and for one without; any other "end" is skipped
\* and the activation goes on in its mode under its parent.
C20_EndClosesOnlyParent ==
  [][EndStep =>
       IF EndOfParent THEN Len(stack') = Len(stack) - 1
       ELSE /\ pc' = pc /\ Len(stack') = Len(stack)
            /\ stack'[Len(stack)].mode = Top.mode
            /\ stack'[Len(stack)].parent = Top.parent]_vars

\* the index in Declaration of the name in "separate (<Name>)"
SeparateNameAt == SkipBlank(Declaration, SkipBlank(Declaration, 8) + 1)

\* the step of adaParse in root mode on "separate (<Name>)"
SeparateStep ==
  /\ pc = "parse" /\ Pre.exc # "EOF" /\ ~AtClause(Pre)
  /\ Top.mode = "ROOT" /\ FirstWord(Pre, RootWords) = "separate"
  /\ CharAt(Declaration, SkipBlank(Declaration, 8)) = "("

\* the scope that the children of the separate token s are given
SeparateScope(s) ==
  [has |-> TRUE, kind |-> "separate", name |-> heap[s].given, hasName |-> TRUE]

\* C21: the root-mode step on "separate (<Name>)" makes one token of kind
\* separate named <Name> under the parent of the activation and makes it
\* the parent of the activation, which keeps it until the next such
\* clause, so that the units the activation makes later are its children;
\* no tag is made for the token of a separate clause, its children are not
\* file-scoped, and each named child of an enabled kind is made a tag,
\* with the scope ("separate", <Name>).
C21_SeparateParent ==
  /\ [][SeparateStep =>
          /\ Len(heap') = Len(heap) + 1 /\ Len(stack') = Len(stack)
          /\ NewTokens[1].kind = ADA_KIND_SEPARATE
          /\ NewTokens[1].hasName
          /\ NewTokens[1].name =
               SubSeq(Declaration, SeparateNameAt + 1, WordEnd(Declaration, SeparateNameAt))
          /\ NewTokens[1].parent = Top.parent
          /\ stack'[Len(stack)].parent = Len(heap) + 1]_vars
  /\ [][(pc = "parse" /\ Len(stack) = 1 /\ ~SeparateStep) =>
          /\ Len(stack') >= 1 => stack'[1].parent = Top.parent
          /\ \A k \in DOMAIN NewTokens :
               NewTokens[k].kind \in RootKinds => NewTokens[k].parent = Top.parent]_vars
  /\ [](\A s \in Tokens :
          heap[s].kind = ADA_KIND_SEPARATE =>
            /\ TagsFor(s) = {}
            /\ \A u \in Tokens :
                 heap[u].parent = s =>
                   /\ heap[u].isFileScope = FALSE
                   /\ \A i \in TagsFor(u) :
                        tags[i].scope = SeparateScope(s) /\ ~tags[i].isFileScope
                   /\ (Stored /\ heap[u].live /\ heap[u].hasName
                         /\ heap[u].kind \in opt.enabled) => TagsFor(u) # {})

\* two units were made under the token of a separate clause and both were
\* made tags with the scope of the clause
C21_Witness ==
  /\ Stored
  /\ \E s \in Tokens, u \in Tokens, v \in Tokens :
       /\ heap[s].kind = ADA_KIND_SEPARATE /\ heap[s].given = "Parent"
       /\ u # v /\ heap[u].parent = s /\ heap[v].parent = s
       /\ heap[u].live /\ heap[v].live
       /\ \E i \in TagsFor(u) : tags[i].scope = SeparateScope(s)
       /\ \E j \in TagsFor(v) : tags[j].scope = SeparateScope(s)

\* C22: tag.isFileScope of a token is written when the token is made and
\* by no later step: marking the parent private, marking a token a
\* specification, splicing formals onto their unit and the spec shift of
\* storeAdaTags leave the flag of every token that exists as it is.
C22_FileScopeWrittenOnce ==
  [][/\ Len(heap') >= Len(heap)
     /\ \A t \in Tokens : heap'[t].isFileScope = heap[t].isFileScope]_vars

\* the flag of a token differs from what the test of newAdaToken gives for
\* its parent now: a formal spliced onto a unit that takes file scope
\* away, and a token made in a specification before its parent was marked
\* private
C22_Witness ==
  /\ pc = "store"
  /\ \E t \in Tokens :
       /\ heap[t].live /\ heap[t].kind = "FORMAL" /\ heap[t].isFileScope
       /\ heap[t].parent # NULL /\ NotFileScope(heap, heap[t].parent)
  /\ \E u \in Tokens :
       /\ heap[u].live /\ heap[u].isFileScope = FALSE
       /\ heap[heap[u].parent].isPrivate = TRUE

\* the tokens met from t on through next, n of them at most
RECURSIVE Walk(_, _, _)
Walk(h, t, n) ==
  IF t = NULL \/ n = 0 THEN << >> ELSE <<t>> \o Walk(h, h[t].next, n - 1)

\* the child list of the token o of the heap h, cut off where it would
\* hold more tokens than the heap
ListOf(h, o) == Walk(h, h[o].head, Len(h) + 1)

\* the child list of the live token o is well formed
WellFormed(h, o) ==
  LET l == ListOf(h, o)
  IN  /\ Len(l) = h[o].numTokens
      /\ \A i, j \in 1..Len(l) : l[i] = l[j] => i = j
      /\ IF l = << >> THEN h[o].head = NULL /\ h[o].tail = NULL
         ELSE /\ h[l[1]].prev = NULL
              /\ h[o].tail = l[Len(l)] /\ h[l[Len(l)]].next = NULL
      /\ \A i \in 1..Len(l) :
           /\ h[l[i]].live /\ h[l[i]].parent = o
           /\ i > 1 => h[l[i]].prev = l[i - 1] /\ h[l[i - 1]].next = l[i]

\* every live token that has a parent is in the child list of that parent,
\* which is live, and in no other child list
Owned(h) ==
  \A t \in 1..Len(h) :
    (h[t].live /\ h[t].parent # NULL) =>
      /\ h[h[t].parent].live
      /\ \A o \in 1..Len(h) :
           h[o].live => ((\E i \in 1..Len(ListOf(h, o)) : ListOf(h, o)[i] = t)
                          <=> o = h[t].parent)

\* the tokens of the sequence l that are in the set S, in the order of l
RECURSIVE Only(_, _)
Only(l, S) ==
  IF l = << >> THEN << >>
  ELSE (IF Head(l) \in S THEN <<Head(l)>> ELSE << >>) \o Only(Tail(l), S)

\* the tokens that a step frees
Freed == {t \in Tokens : heap[t].live /\ ~heap'[t].live}

\* the tokens that a step splices onto the token p: they were children of
\* a genericParamsRoot, or are formals made in the step
Moved(p) ==
  {t \in 1..Len(heap') :
     /\ heap'[t].live /\ heap'[t].parent = p
     /\ IF t <= Len(heap)
          THEN /\ heap[t].live /\ heap[t].parent # p
               /\ heap[heap[t].parent].kind = "genericParamsRoot"
          ELSE heap'[t].kind = "FORMAL"}

\* detach: a freed token goes with every token below it, and the tokens
\* that stay with their parent keep their order
DetachKeepsOrder ==
  /\ \A t \in Freed : \A i \in 1..Len(ListOf(heap, t)) : ~heap'[ListOf(heap, t)[i]].live
  /\ \A o \in Tokens :
       (heap[o].live /\ heap'[o].live) =>
         Only(ListOf(heap, o), {t \in Tokens : heap'[t].live /\ heap'[t].parent = o})
           = Only(ListOf(heap', o), {t \in Tokens : heap[t].live /\ heap[t].parent = o})

\* splice: the moved tokens stand behind the other children of their new
\* parent, in the order of the list they come from, which is left empty
SpliceAppends ==
  \A p \in 1..Len(heap') :
    (heap'[p].live /\ heap'[p].kind # "genericParamsRoot" /\ Moved(p) # {}) =>
      LET l == ListOf(heap', p)
          k == Len(l) - Cardinality(Moved(p))
      IN  /\ \A i \in 1..Len(l) : (l[i] \in Moved(p)) <=> i > k
          /\ \A i, j \in (k + 1)..Len(l) : i < j => l[i] < l[j]
          /\ \A g \in Tokens :
               (heap[g].kind = "genericParamsRoot" /\ heap[g].live
                  /\ \E i \in 1..Len(ListOf(heap, g)) : ListOf(heap, g)[i] \in Moved(p))
               => /\ SubSeq(l, k + 1, k + heap[g].numTokens) = ListOf(heap, g)
                  /\ heap'[g].live =>
                       /\ heap'[g].head = NULL /\ heap'[g].tail = NULL
                       /\ heap'[g].numTokens = 0

\* C23: in every state the child list of every live token is well formed
\* (numTokens tokens from head through next, no prev at the head, no next
\* at the tail, prev and next inverse, the parent of each token the owner
\* of the list) and a live token is in the list of its parent and in no
\* other; a step that frees a token frees its subtree and keeps the order
\* of the siblings that stay; a splice appends the moved tokens in their
\* order behind the children of the new parent and empties the list they
\* came from.
C23_Lists ==
  /\ [](\A o \in Tokens : heap[o].live => WellFormed(heap, o))
  /\ []Owned(heap)
  /\ [][DetachKeepsOrder /\ SpliceAppends]_vars

\* formals were spliced behind the parameters of their unit, and a token
\* with children was freed out of a list that keeps other tokens
C23_Witness ==
  /\ \E p \in Tokens, i \in Tokens, j \in Tokens :
       /\ heap[p].live /\ Len(ListOf(heap, p)) >= 2
       /\ heap[i].live /\ heap[j].live
       /\ heap[i].parent = p /\ heap[j].parent = p
       /\ heap[i].kind = "AUTOMATIC_VARIABLE" /\ heap[j].kind = "FORMAL"
       /\ heap[i].next = j
  /\ \E t \in Tokens, u \in Tokens :
       /\ ~heap[t].live /\ heap[t].ending = "separate" /\ heap[u].parent = t
       /\ heap[heap[t].parent].live /\ heap[heap[t].parent].numTokens >= 1

\* the kinds that makeSpec gives
ShiftedKinds ==
  {"PACKAGE_SPEC", "TYPE_SPEC", "SUBTYPE_SPEC", "VARIABLE_SPEC", "SUBPROGRAM_SPEC",
   "TASK_SPEC", "PROTECTED_SPEC", "ENTRY_SPEC", ADA_KIND_UNDEFINED}

\* the token t is below the token a in the tree
RECURSIVE Below(_, _)
Below(t, a) ==
  IF t = NULL \/ heap[t].parent = NULL THEN FALSE
  ELSE heap[t].parent = a \/ Below(heap[t].parent, a)

\* the place of the token t in the child list of its parent
Place(t) ==
  CHOOSE i \in 1..Len(ListOf(heap, heap[t].parent)) : ListOf(heap, heap[t].parent)[i] = t

\* the call storeAdaTags(t, ...) is about to be made
Visit(t) == pc = "store" /\ estack # << >> /\ ETop.tmp = t

\* C24: storeAdaTags finalizes a parent before its children: when a token
\* is visited its parent, if a specification, has its kind shifted
\* already and the scope of the tag is made from that kind; a tag of a
\* token comes before every tag of a token below it; the tags of the
\* children of one parent come in the order of its child list; and the
\* kind of a token changes in no step but its own visit, there by one
\* makeSpec.
C24_ParentFirst ==
  /\ [][\A t \in Tokens :
          /\ (Visit(t) /\ heap[t].parent # Root) =>
               /\ heap[heap[t].parent].isSpec = TRUE
                    => heap[heap[t].parent].kind \in ShiftedKinds
               /\ \A i \in TagsFor(t)' :
                    heap[heap[t].parent].kind \in RealKinds =>
                      tags'[i].scope.kind = AdaKinds[heap[heap[t].parent].kind].name
          /\ heap'[t].kind # heap[t].kind =>
               /\ Visit(t) /\ heap[t].isSpec = TRUE
               /\ heap[t].kind \notin ShiftedKinds
               /\ heap'[t].kind = makeSpec(heap[t].kind)]_vars
  /\ [](pc = "store" =>
          \A i, j \in 1..Len(tags) :
            LET t == tags[i].token
                u == tags[j].token
            IN  /\ Below(u, t) => i < j
                /\ (t # u /\ heap[t].parent = heap[u].parent /\ Place(t) < Place(u))
                     => i < j
                /\ \A a \in Tokens :
                     (Below(t, a) /\ heap[a].parent = heap[u].parent
                        /\ Place(a) < Place(u)) => i < j)

\* tags were made for a specification, for a token below it with the
\* shifted kind as its scope, and for a later sibling of the specification
C24_Witness ==
  /\ Stored
  /\ \E i, j, k \in 1..Len(tags) :
       /\ i < j /\ j < k
       /\ heap[tags[i].token].isSpec = TRUE /\ tags[i].kind = "packspec"
       /\ heap[tags[j].token].parent = tags[i].token /\ tags[j].scope.kind = "packspec"
       /\ heap[tags[k].token].parent = heap[tags[i].token].parent
       /\ tags[k].token # tags[i].token

\* the tags that the step makes
NewTags == [k \in 1..(Len(tags') - Len(tags)) |-> tags'[Len(tags) + k]]

\* the step visits the token t, qualified tags being included, and makes a
\* tag for it
QualifiedVisit(t) == Visit(t) /\ opt.qualifiedTags /\ Len(NewTags) >= 1

\* the scope basis that the visit of t hands to the children of t is the
\* dotted name if the visit made a qualified tag and the plain name of t
\* if it made none
BasisHanded(t) ==
  /\ Len(estack') = Len(estack) + 1
  /\ estack'[Len(estack')].hasCurrentScope
  /\ estack'[Len(estack')].currentScope =
       IF Len(NewTags) = 2 THEN ETop.currentScope \o "." \o heap'[t].name
       ELSE heap'[t].name

\* C25, step by step: with qualified tags included, a token that is made a
\* qualified tag hands the dotted name parentScope.name to its children as their scope
\* basis, and a token that is made a tag without a qualified one, being of
\* a scope-limited kind or having no scope basis above it, hands them its
\* plain name.
C25_BasisPassed ==
  [][\A t \in Tokens : QualifiedVisit(t) => BasisHanded(t)]_vars

\* the part of C25 that storeAdaTags implements: the tokens that are not
\* of a scope-limited kind
C25_BasisOfUnlimited ==
  [][\A t \in Tokens :
       (QualifiedVisit(t) /\ heap'[t].kind \notin ScopeLimitedKinds) => BasisHanded(t)]_vars

\* what storeAdaTags does for a token of a scope-limited kind: its
\* children are left without a scope basis
C25_LimitedHandsNothing ==
  [][\A t \in Tokens :
       (QualifiedVisit(t) /\ heap'[t].kind \in ScopeLimitedKinds) =>
         /\ Len(NewTags) = 1
         /\ ~estack'[Len(estack')].hasCurrentScope]_vars

\* the number of tags made for the token t
TagCount(t) == Cardinality({k \in 1..Len(tags) : tags[k].token = t})

\* the token t lies below a token other than the root, and a tag was made
\* for every such token above it
BelowEmitted(t) ==
  /\ heap[t].parent \notin {NULL, Root}
  /\ \A a \in Tokens \ {Root} : Below(t, a) => TagCount(a) >= 1

\* C25: a token of a scope-limited kind hands its plain name to its
\* children as their scope basis, so that, once storeAdaTags has run with
\* qualified tags included, every token that was made a tag, is not of a scope-limited
\* kind and lies below emitted named tokens has a qualified tag besides
\* its plain one.
C25_DescendantsQualified ==
  (Stored /\ opt.qualifiedTags) =>
    \A t \in Tokens :
      (/\ heap[t].live
       /\ TagCount(t) >= 1
       /\ heap[t].kind \notin ScopeLimitedKinds
       /\ BelowEmitted(t)) => TagCount(t) = 2

\* what storeAdaTags does instead: the qualified tag is made exactly when
\* the parent handed a scope basis, which a parent of a scope-limited kind
\* never does
C25_QualifiedUnderUnlimited ==
  (Stored /\ opt.qualifiedTags) =>
    \A t \in Tokens :
      (/\ heap[t].live
       /\ TagCount(t) >= 1
       /\ heap[t].kind \notin ScopeLimitedKinds
       /\ BelowEmitted(t)) =>
         (TagCount(t) = 2 <=> heap[heap[t].parent].kind \notin ScopeLimitedKinds)

\* the token c passes the tests that storeAdaTags makes of a token other
\* than an anonymous one: its kind is enabled, it has a name and it passes
\* the file-scope filter
Eligible(c) ==
  /\ heap[c].kind \in opt.enabled
  /\ heap[c].hasName
  /\ opt.fileScope \/ ~heap[c].isFileScope

\* C26: an anonymous block or loop is made a tag only if at least one of
\* its children is eligible for a tag (enabled kind, name, file-scope
\* filter); an anonymous token all of whose children are filtered out is
\* not made a tag.
C26_AnonymousNeedsEligibleChild ==
  Stored =>
    \A t \in Tokens :
      (heap[t].live /\ heap[t].kind = "ANONYMOUS" /\ TagsFor(t) # {})
        => \E i \in 1..Len(ListOf(heap, t)) : Eligible(ListOf(heap, t)[i])

\* what storeAdaTags tests instead: the child list is not empty
C26_AnonymousNeedsChild ==
  Stored =>
    \A t \in Tokens :
      (heap[t].live /\ heap[t].kind = "ANONYMOUS")
        => (TagsFor(t) # {} <=>
              /\ "ANONYMOUS" \in opt.enabled
              /\ heap[t].head # NULL
              /\ opt.fileScope \/ ~heap[t].isFileScope)

\* the word w stands in the line s at index p
WordAt(s, p, w) ==
  /\ p + Len(w) <= Len(s)
  /\ SubSeq(s, p + 1, p + Len(w)) = w
  /\ p = 0 \/ IsNameGap(CharAt(s, p - 1))
  /\ p + Len(w) = Len(s) \/ IsNameGap(CharAt(s, p + Len(w)))
       \/ CharAt(s, p + Len(w)) = ":"

HasWord(s, w) == \E p \in 0..Len(s) : WordAt(s, p, w)

\* the lines from the one of the scanner on that hold the word w
LinesWith(w) == {l \in Pre.n..Len(file) : HasWord(file[l], w)}

\* the first of them
NameLine(w) == CHOOSE l \in LinesWith(w) : \A m \in LinesWith(w) : l <= m

\* the list that the step parses goes on after the line of the scanner
SeveralLines == VariablesStep /\ Len(NewTokens) >= 1 /\ cur'.n > Pre.n

\* C27: when the names of a variable list stand on several lines, the line
\* number and the file position of each token made are those of the line
\* of the file on which its name stands, whatever lies between the names,
\* empty lines and comment lines included.
C27_LineOfName ==
  [][VariablesStep =>
       \A k \in 1..Len(NewTokens) :
         /\ LinesWith(NewTokens[k].name) # {}
         /\ NewTokens[k].lineNumber = NameLine(NewTokens[k].name)
         /\ NewTokens[k].filePosition = FilePos(NameLine(NewTokens[k].name))]_vars

\* the part of C27 that adaParseVariables implements: the file position
C27_PositionOfName ==
  [][VariablesStep =>
       \A k \in 1..Len(NewTokens) :
         /\ LinesWith(NewTokens[k].name) # {}
         /\ NewTokens[k].filePosition = FilePos(NameLine(NewTokens[k].name))]_vars

\* what adaParseVariables does for the line number: the line of the
\* first name plus the number of lines before the name that are not empty
C27_LineCountsRefills ==
  [][VariablesStep =>
       \A k \in 1..Len(NewTokens) :
         /\ LinesWith(NewTokens[k].name) # {}
         /\ NewTokens[k].lineNumber =
              Pre.n + Cardinality({l \in Pre.n..(NameLine(NewTokens[k].name) - 1) :
                                     Len(file[l]) > 0})]_vars

\* the step of adaParse that calls adaParseType in declarations mode
TypeStep ==
  /\ pc = "parse" /\ Pre.exc # "EOF" /\ ~AtClause(Pre)
  /\ Top.mode = "DECLARATIONS"
  /\ FirstWord(Pre, DeclarationsWords) \in {"type", "subtype"}

\* the index of the first occurrence of pat in s from i on, -1 without one
RECURSIVE Find(_, _, _)
Find(s, pat, i) ==
  IF i + Len(pat) > Len(s) THEN -1
  ELSE IF SubSeq(s, i + 1, i + Len(pat)) = pat THEN i
  ELSE Find(s, pat, i + 1)

StartsWith(s, pat) == Len(s) >= Len(pat) /\ SubSeq(s, 1, Len(pat)) = pat

\* the literals of an enumeration declared on the line of the scanner
EnumNames ==
  IF Find(Declaration, " is (", 0) = -1 THEN << >>
  ELSE NamesIn(Declaration, Find(Declaration, " is (", 0) + 5,
               Find(Declaration, ")", Find(Declaration, " is (", 0)))

\* the component names that the line s of a record declares
ComponentsOf(s) ==
  LET b == IF StartsWith(s, "when ") THEN Find(s, "=> ", 0) + 3 ELSE 0
  IN  IF StartsWith(s, "case ") \/ StartsWith(s, "end ") \/ TopColon(s, b, 0) = -1
        THEN << >>
        ELSE NamesIn(s, b, TopColon(s, b, 0))

RECURSIVE ComponentsFrom(_)
ComponentsFrom(l) ==
  IF l > Len(file) \/ file[l] = "end record;" THEN << >>
  ELSE ComponentsOf(file[l]) \o ComponentsFrom(l + 1)

\* the components of a record whose declaration opens on the line of the
\* scanner
RecordNames ==
  IF Find(Declaration, " is record", 0) = -1 THEN << >>
  ELSE ComponentsFrom(Pre.n + 1)

\* the names of the new tokens of the kind k, in the order they were made
NewNames(k) ==
  LET sel == SelectSeq(NewTokens, LAMBDA u : u.kind = k)
  IN  [i \in DOMAIN sel |-> sel[i].given]

Members(t, k) ==
  LET sel == SelectSeq(Children(heap, t), LAMBDA u : heap[u].kind = k)
  IN  [i \in DOMAIN sel |-> heap[sel[i]].given]

PlainCodeStep ==
  /\ pc = "parse" /\ Pre.exc # "EOF" /\ ~AtClause(Pre)
  /\ Top.mode = "CODE"
  /\ FirstWord(Pre, CodeWords \o StatementWords) = ""
  /\ ~strncasecmp0(Line(Pre), Pre.pos, "<<")

\* the statement opens with "<word>:", the ":" not being that of ":="
LeadingWord ==
  /\ WordEnd(Declaration, 0) >= 1
  /\ CharAt(Declaration, WordEnd(Declaration, 0)) = ":"
  /\ CharAt(Declaration, WordEnd(Declaration, 0) + 1) # "="

\* the word after that ":" opens a block or a loop
OpensBlock ==
  WordAfter(Declaration, WordEnd(Declaration, 0) + 1)
    \in {"declare", "begin", "for", "while", "loop"}

\* the tokens that were there before the step are as they were
OldTokensKept == \A t \in Tokens : heap'[t] = heap[t]

\* C29: in code mode the identifier token made for a leading "<word>:"
\* stays in the tree only if the next word is declare, begin, for, while
\* or loop; otherwise it is unlinked and freed and the child list of the
\* parent is as it was before; an assignment "X := ...;" or "X:= ...;"
\* makes no token.
C29_SpeculativeIdentifier ==
  /\ [][PlainCodeStep =>
          IF LeadingWord /\ OpensBlock
            THEN /\ Len(NewTokens) >= 1
                 /\ NewTokens[1].kind = "IDENTIFIER" /\ NewTokens[1].live
                 /\ NewTokens[1].given = SubSeq(Declaration, 1, WordEnd(Declaration, 0))
                 /\ NewTokens[1].parent = Top.parent
                 /\ Children(heap', Top.parent)
                      = Append(Children(heap, Top.parent), Len(heap) + 1)
          ELSE IF LeadingWord
            THEN /\ Len(NewTokens) = 1 /\ ~NewTokens[1].live
                 /\ OldTokensKept
          ELSE heap' = heap]_vars
  /\ [][\A t \in Tokens :
          (pc' = "parse" /\ heap[t].live /\ heap[t].kind = "IDENTIFIER")
            => /\ heap'[t].live
               /\ \E i \in DOMAIN Children(heap', heap'[t].parent) :
                    Children(heap', heap'[t].parent)[i] = t]_vars

\* a block identifier is in the tree, a speculative one was freed and both
\* forms of the assignment were passed
C29_Witness ==
  /\ pc = "parse"
  /\ \E t \in Tokens : heap[t].live /\ heap[t].kind = "IDENTIFIER" /\ heap[t].given = "W1"
  /\ \E t \in Tokens : heap[t].live /\ heap[t].kind = "IDENTIFIER" /\ heap[t].given = "B1"
  /\ \E t \in Tokens : ~heap[t].live /\ heap[t].kind = "IDENTIFIER" /\ heap[t].given = "Foo"
  /\ \E t \in Tokens : ~heap[t].live /\ heap[t].kind = "IDENTIFIER" /\ heap[t].given = "Bar"
  /\ \A t \in Tokens : heap[t].given \notin {"X", "Y", "Z"}
  /\ cur.n > 10

\* the parts of C30 that hold: the exception flag, once EOF, is never
\* reset during the parse; whenever the flag is EOF the line is absent and
\* its length is 0; the end-of-input counter never decreases and stays
\* below its threshold while the parse goes on
C30_EndOfInputPersistent ==
  /\ [](cur.exc = "EOF" => (cur.null /\ lineLen(cur) = 0))
  /\ [](pc = "parse" => cur.eof < EofLimit)
  /\ [][/\ cur.exc = "EOF" => cur'.exc = "EOF"
        /\ cur'.eof >= cur.eof]_vars

\* C30: the end of input is persistent and guarded; in particular no
\* routine reads or copies from the line while the line is absent: memcpy
\* is never called with the absent line as its source.
C30_NoCopyFromAbsentLine == ~cur.nullCopy

\* the copy at the head of adaParseVariables is made from a line that is
\* there whenever the routine is entered before the end of input
C30_CopyOnlyAtEnd == cur.nullCopy => cur.exc = "EOF"

=============================================================================
